---- MODULE Spec2Model ----
(***************************************************************************)
(* Model of the persistence-access layer of saypi (src/say/repository.go)  *)
(* over the tables of src/schema.sql: moods, conversations, lines, of the  *)
(* list handlers of its controller and of the iterator of its client.      *)
(*                                                                         *)
(* Tables are sets of rows.  The SERIAL id columns are counters that are   *)
(* advanced by every successful insert.  Strings are TLA+ strings; the     *)
(* case folding of lower() / strings.EqualFold is computed by ToLower on   *)
(* the names that occur in the model.                                      *)
(*                                                                         *)
(* resp is the answer to the last list call, walk the progress of a caller *)
(* that pages through its moods, calls the call each caller is executing,  *)
(* statement by statement.  The specifications:                            *)
(*   SpecList    list calls and paging walks over seeded stores            *)
(*   SpecCursor  one caller, two owners: moods and conversations created,  *)
(*               deleted and listed from a cursor                          *)
(*   SpecSeq     one caller using every mutating operation                 *)
(*   SpecConvos  two concurrent callers on conversations and lines         *)
(*   SpecMoods   two concurrent callers on the moods of one owner          *)
(*   SpecOwn     one caller setting, updating and deleting moods           *)
(*   SpecLines   two concurrent callers on lines and the mood they use     *)
(*   SpecThread  one caller creating and deleting lines                    *)
(*   SpecFaults  two concurrent callers with failing inserts               *)
(*   SpecRender  one caller on a mood and the lines that use it            *)
(*   SpecArgs    list requests with every form of cursors and limit        *)
(*   SpecIter    the client iterating moods or conversations               *)
(*   SpecShare   one owner calling with the names and ids of another       *)
(***************************************************************************)
EXTENDS Integers, Sequences, FiniteSets, TLC

VARIABLES moods, moodSeq, convos, convoSeq, lines, lineSeq, gone,
          resp, walk, calls

vars == <<moods, moodSeq, convos, convoSeq, lines, lineSeq, gone,
          resp, walk, calls>>

\* the tables and their id sequences; gone is the history of the store: the
\* keys that a delete statement removed and that have not been created since
tables == <<moods, moodSeq, convos, convoSeq, lines, lineSeq>>

store == <<tables, gone>>

(***************************************************************************)
(* Bounds of the model.                                                    *)
(***************************************************************************)
\* largest number of Dynamic moods of one owner in a seeded store
MaxDyn == 8
\* largest number of conversations of one owner in a seeded store
MaxSeedConvos == 3
\* largest limit a list call is made with (the handler admits 0..100)
MaxLimit == 17

(***************************************************************************)
(* Program constants.                                                      *)
(***************************************************************************)
maxInsertRetries == 16

errNil == "nil"
errCursorNotFound == "errCursorNotFound"
errBuiltinMood == "errBuiltinMood"
\* pq.Error codes: unique_violation and foreign_key_violation
dbErrDupUnique == "pq:23505"
dbErrFKViolation == "pq:23503"
sqlErrNoRows == "sql.ErrNoRows"

Users == {"u1", "u2"}

(***************************************************************************)
(* Generic helpers.                                                        *)
(***************************************************************************)
Reverse(s) == [i \in 1..Len(s) |-> s[Len(s) + 1 - i]]

Take(s, n) == IF n >= Len(s) THEN s ELSE SubSeq(s, 1, n)

Min(a, b) == IF a <= b THEN a ELSE b

Range(s) == {s[i] : i \in DOMAIN s}

\* rows of a table in ascending order of the id column (ORDER BY 1 ASC):
\* the i-th row is the one with i - 1 rows of smaller id
OrderById(S) ==
  [i \in 1..Cardinality(S) |->
     CHOOSE r \in S : Cardinality({q \in S : q.id < r.id}) = i - 1]

\* ORDER BY with ASC and DESC exchanged
OrderedSwapped(asc, S) == IF asc THEN Reverse(OrderById(S)) ELSE OrderById(S)

\* ORDER BY 1 ASC / DESC
Ordered(asc, S) == IF asc THEN OrderById(S) ELSE Reverse(OrderById(S))

\* lower() of the store and the folding of strings.EqualFold, on the names
\* of the model
ToLower(s) ==
  CASE s \in {"FOO", "Foo"} -> "foo"
    [] s \in {"BAR", "Bar"} -> "bar"
    [] s \in {"DEFAULT", "Default"} -> "default"
    [] s \in {"BORG", "Borg"} -> "borg"
    [] s \in {"DEAD", "Dead"} -> "dead"
    [] s \in {"GREEDY", "Greedy"} -> "greedy"
    [] s \in {"STONED", "Stoned"} -> "stoned"
    [] s \in {"TIRED", "Tired"} -> "tired"
    [] s \in {"WIRED", "Wired"} -> "wired"
    [] s \in {"YOUNG", "Young"} -> "young"
    [] OTHER -> s

EqualFold(a, b) == ToLower(a) = ToLower(b)

(***************************************************************************)
(* Built-in (Static) moods, in declaration order.                          *)
(***************************************************************************)
BuiltinMood(n, e, t) ==
  [name |-> n, eyes |-> e, tongue |-> t, userDefined |-> FALSE, id |-> 0]

builtinMoods ==
  << BuiltinMood("default", "oo", "  "),
     BuiltinMood("borg", "==", "  "),
     BuiltinMood("dead", "xx", "U "),
     BuiltinMood("greedy", "$$", "  "),
     BuiltinMood("stoned", "**", "U "),
     BuiltinMood("tired", "--", "  "),
     BuiltinMood("wired", "OO", "  "),
     BuiltinMood("young", "..", "  ") >>

\* the test with == in place of strings.EqualFold
isBuiltinExact(name) ==
  \E i \in DOMAIN builtinMoods : builtinMoods[i].name = name

isBuiltin(name) == \E i \in DOMAIN builtinMoods : EqualFold(builtinMoods[i].name, name)

\* listArgs
ListArgs(before, after, limit) == [Before |-> before, After |-> after, Limit |-> limit]

sortAsc(args) == args.After # "" \/ args.Before = ""

\* cursor := args.After; if !asc { cursor = args.Before }
CursorOf(asc, args) == IF asc THEN args.After ELSE args.Before

ListResult(items, hasMore, err) == [items |-> items, hasMore |-> hasMore, err |-> err]

CursorNotFound == ListResult(<<>>, FALSE, errCursorNotFound)

\* hasMore := len(items) > limit; if hasMore { items = items[:limit] }
Trim(items, limit) == ListResult(Take(items, limit), Len(items) > limit, errNil)

(***************************************************************************)
(* SQL statements on the moods table.                                      *)
(***************************************************************************)
\* the lookup without the user_id condition
findMoodAnyOwner(M, userID, name) ==
  {r \in M : ToLower(r.name) = ToLower(name)}

\* findMood: the rows of userID whose lower(name) equals lower(name)
findMood(M, userID, name) ==
  {r \in M : r.user = userID /\ ToLower(r.name) = ToLower(name)}

\* listMoods with the cursor row itself included (">=" / "<=")
listMoodsQueryInclusive(M, asc, userID, cursorID, limit) ==
  Take(Ordered(asc, {r \in M : /\ r.user = userID
                               /\ \/ cursorID < 0
                                  \/ IF asc THEN r.id >= cursorID ELSE r.id <= cursorID}),
       limit + 1)

\* listMoods: formatted with ">" / ASC or "<" / DESC; LIMIT :limit + 1
listMoodsQuery(M, asc, userID, cursorID, limit) ==
  Take(Ordered(asc, {r \in M : /\ r.user = userID
                               /\ \/ cursorID < 0
                                  \/ IF asc THEN r.id > cursorID ELSE r.id < cursorID}),
       limit + 1)

\* a moods row scanned into a moodRec, as a Mood carrying its id
MoodOfRow(r) ==
  [name |-> r.name, eyes |-> r.eyes, tongue |-> r.tongue,
   userDefined |-> TRUE, id |-> r.id]

MoodsOfRows(rows) == [i \in DOMAIN rows |-> MoodOfRow(rows[i])]

\* the id of the row a lookup returned
RowID(hit) == (CHOOSE r \in hit : TRUE).id

(***************************************************************************)
(* repository.listBuiltinMoods                                             *)
(***************************************************************************)
\* the mood the i-th iteration looks at
BuiltinAt(asc, i) ==
  IF asc THEN builtinMoods[i] ELSE builtinMoods[Len(builtinMoods) + 1 - i]

\* one iteration of the loop over builtinMoods on the loop state
\* [moods, found, stop]; stop is the break on len(moods) == limit
BuiltinIter(i, asc, cursor, limit, st) ==
  IF st.found
  THEN [st EXCEPT !.moods = Append(st.moods, BuiltinAt(asc, i)),
                  !.stop = (Len(st.moods) + 1 = limit)]
  ELSE [st EXCEPT !.found = (BuiltinAt(asc, i).name = cursor)]

RECURSIVE BuiltinLoop(_, _, _, _, _)
BuiltinLoop(i, asc, cursor, limit, st) ==
  IF i > Len(builtinMoods) \/ st.stop THEN st
  ELSE BuiltinLoop(i + 1, asc, cursor, limit, BuiltinIter(i, asc, cursor, limit, st))

\* what follows the loop
BuiltinOutcome(st, limit) ==
  IF ~st.found THEN CursorNotFound ELSE Trim(st.moods, limit)

listBuiltinMoods(asc, args) ==
  BuiltinOutcome(
    BuiltinLoop(1, asc, CursorOf(asc, args), args.Limit + 1,
                [moods |-> <<>>,
                 found |-> (args.After = "" /\ args.Before = ""),
                 stop |-> FALSE]),
    args.Limit)

(***************************************************************************)
(* repository.listUserMoods                                                *)
(***************************************************************************)
\* the part after the cursor lookup; hit is what findMood returned
UserMoodsFrom(M, userID, asc, limit, cursor, hit) ==
  IF cursor # "" /\ hit = {} THEN CursorNotFound
  ELSE Trim(MoodsOfRows(listMoodsQuery(M, asc, userID,
                                       IF cursor # "" THEN RowID(hit) ELSE -1,
                                       limit + 1)),
            limit)

listUserMoods(M, userID, asc, args) ==
  UserMoodsFrom(M, userID, asc, args.Limit, CursorOf(asc, args),
                findMood(M, userID, CursorOf(asc, args)))

(***************************************************************************)
(* repository.ListMoods                                                    *)
(***************************************************************************)
\* sources[k](asc, args): the owner's moods (isUser) or the built-ins
MoodSource(M, userID, isUser, asc, args) ==
  IF isUser THEN listUserMoods(M, userID, asc, args) ELSE listBuiltinMoods(asc, args)

\* args as passed to sources[1]: untouched after errCursorNotFound, else
\* without cursor and with Limit reduced by the number of moods found
SecondArgs(first, args) ==
  IF first.err = errNil
  THEN ListArgs("", "", args.Limit - Len(first.items))
  ELSE args

\* the comparison that ends ListMoods after the primary source
PrimaryFilled(found, args) == Len(found) = args.Limit

\* the end of ListMoods: the moods of sources[1] appended, its hasMore
Combined(first, second) ==
  IF second.err # errNil THEN ListResult(<<>>, FALSE, second.err)
  ELSE ListResult(first.items \o second.items, second.hasMore, errNil)

AfterPrimary(M, userID, asc, first, args2) ==
  IF first.err = errNil /\ PrimaryFilled(first.items, args2)
  THEN ListResult(first.items, TRUE, errNil)
  ELSE Combined(first, MoodSource(M, userID, ~asc, asc, args2))

ListMoodsFrom(M, userID, asc, args, first) ==
  AfterPrimary(M, userID, asc, first, SecondArgs(first, args))

\* whether ListMoods, given what sources[0] returned, goes on to call
\* sources[1]
CallsSecond(first, args2) == ~(first.err = errNil /\ PrimaryFilled(first.items, args2))

QueriesSecondary(M, userID, args) ==
  CallsSecond(MoodSource(M, userID, sortAsc(args), sortAsc(args), args),
              SecondArgs(MoodSource(M, userID, sortAsc(args), sortAsc(args), args), args))

ListMoods(M, userID, args) ==
  ListMoodsFrom(M, userID, sortAsc(args), args,
                MoodSource(M, userID, sortAsc(args), sortAsc(args), args))

(***************************************************************************)
(* SQL statements on the conversations table and ListConversations.        *)
(***************************************************************************)
\* getConvo without the user_id condition
getConvoAnyOwner(C, userID, publicID) == {r \in C : r.public_id = publicID}

\* getConvo: the rows of userID with that public_id
getConvo(C, userID, publicID) ==
  {r \in C : r.user = userID /\ r.public_id = publicID}

\* listConvos with the cursor row itself included (">=" / "<=")
listConvosQueryInclusive(C, asc, userID, cursorID, limit) ==
  Take(Ordered(asc, {r \in C : /\ r.user = userID
                               /\ \/ cursorID < 0
                                  \/ IF asc THEN r.id >= cursorID ELSE r.id <= cursorID}),
       limit)

\* listConvos: formatted with ">" / ASC or "<" / DESC; LIMIT :limit
listConvosQuery(C, asc, userID, cursorID, limit) ==
  Take(Ordered(asc, {r \in C : /\ r.user = userID
                               /\ \/ cursorID < 0
                                  \/ IF asc THEN r.id > cursorID ELSE r.id < cursorID}),
       limit)

\* a conversations row scanned into a convoRec, as a Conversation without lines
ConvoOfRow(r) ==
  [ID |-> r.public_id, Heading |-> r.heading, Lines |-> <<>>, id |-> r.id]

ConvosOfRows(rows) == [i \in DOMAIN rows |-> ConvoOfRow(rows[i])]

\* the part after the cursor lookup; hit is what getConvo returned
ConvosFrom(C, userID, asc, limit, cursor, hit) ==
  IF cursor # "" /\ hit = {} THEN CursorNotFound
  ELSE Trim(ConvosOfRows(listConvosQuery(C, asc, userID,
                                         IF cursor # "" THEN RowID(hit) ELSE -1,
                                         limit + 1)),
            limit)

ListConversations(C, userID, args) ==
  ConvosFrom(C, userID, sortAsc(args), args.Limit, CursorOf(sortAsc(args), args),
             getConvo(C, userID, CursorOf(sortAsc(args), args)))

(***************************************************************************)
(* Responses and the state shared by all specifications.                   *)
(***************************************************************************)
NoResp == [op |-> "none", user |-> "", args |-> ListArgs("", "", 0),
           res |-> ListResult(<<>>, FALSE, errNil)]

ListResp(op, userID, args, res) == [op |-> op, user |-> userID, args |-> args, res |-> res]

IdleWalk == [phase |-> "idle", user |-> "", cursor |-> "", fwd |-> <<>>, back |-> <<>>]

(***************************************************************************)
(* Seeded stores for the listing specification: stores left behind by      *)
(* SetMood / NewConversation calls of u1, alone or alternating with u2.    *)
(***************************************************************************)
DynNames == <<"foo", "bar", "baz", "qux", "quux", "corge", "grault", "garply", "waldo", "fred">>

SeedIDs == <<"cv_a", "cv_b", "cv_c", "cv_d", "cv_e">>

MoodRow(id, userID, name, eyes, tongue) ==
  [id |-> id, user |-> userID, name |-> name, eyes |-> eyes, tongue |-> tongue]

ConvoRow(id, publicID, userID, heading) ==
  [id |-> id, public_id |-> publicID, user |-> userID, heading |-> heading]

\* k moods of u1; names taken from DynNames forwards or backwards; with
\* shared = TRUE every insert of u1 follows one of u2 under the same name
SeedMoods(k, backwards, shared) ==
  {MoodRow(IF shared THEN 2 * i ELSE i, "u1",
           DynNames[IF backwards THEN k + 1 - i ELSE i],
           IF i % 2 = 0 THEN "--" ELSE "@@", "U ") : i \in 1..k}
  \cup (IF shared
        THEN {MoodRow(2 * i - 1, "u2", DynNames[i], "oo", "  ") : i \in 1..k}
        ELSE {})

SeedConvos(k, shared) ==
  {ConvoRow(IF shared THEN 2 * i ELSE i, SeedIDs[i], "u1", "h") : i \in 1..k}
  \cup (IF shared /\ k > 0 THEN {ConvoRow(1, "cv_x", "u2", "h")} ELSE {})

MaxId(S) == IF S = {} THEN 0 ELSE (CHOOSE r \in S : \A q \in S : q.id <= r.id).id

InitList ==
  /\ \E k \in 0..MaxDyn, shared \in BOOLEAN :
       /\ moods = SeedMoods(k, shared, shared)
       /\ convos = SeedConvos(Min(k, MaxSeedConvos), shared)
  /\ moodSeq = MaxId(moods)
  /\ convoSeq = MaxId(convos)
  /\ lines = {}
  /\ lineSeq = 0
  /\ gone = {}
  /\ resp = NoResp
  /\ walk = IdleWalk
  /\ calls = <<>>

(***************************************************************************)
(* Listing calls.                                                          *)
(***************************************************************************)
\* cursor values a caller may send: live names, a case variant of a live
\* name, case variants of built-in names, names of absent entries
MoodCursors == {r.name : r \in moods} \cup {builtinMoods[i].name : i \in DOMAIN builtinMoods}
                 \cup {"FOO", "BORG", "nope"}

ConvoCursors == {r.public_id : r \in convos} \cup {"cv_x", "nope"}

ArgsOver(cursors) ==
  {ListArgs("", "", l) : l \in 0..MaxLimit}
    \cup {ListArgs("", c, l) : c \in cursors, l \in 0..MaxLimit}
    \cup {ListArgs(c, "", l) : c \in cursors, l \in 0..MaxLimit}

\* One caller at a time in the listing specification: a call is made once
\* the previous response has been taken (Return).
Quiet == resp.op = "none" /\ walk.phase = "idle"

CallListMoods(userID, args) ==
  /\ Quiet
  /\ resp' = ListResp("ListMoods", userID, args, ListMoods(moods, userID, args))
  /\ walk' = IdleWalk
  /\ UNCHANGED <<store, calls>>

CallListConversations(userID, args) ==
  /\ Quiet
  /\ resp' = ListResp("ListConversations", userID, args, ListConversations(convos, userID, args))
  /\ walk' = IdleWalk
  /\ UNCHANGED <<store, calls>>

(***************************************************************************)
(* A caller paging through its moods with limit 1: forward from the start  *)
(* with After cursors, then backward from the last item with Before        *)
(* cursors, each time passing the name of the item returned last.          *)
(***************************************************************************)
MaxWalk == MaxDyn + Len(builtinMoods) + 2

WalkStart(userID) ==
  /\ Quiet
  /\ walk' = [phase |-> "fwd", user |-> userID, cursor |-> "", fwd |-> <<>>, back |-> <<>>]
  /\ resp' = NoResp
  /\ UNCHANGED <<store, calls>>

\* the walker's step forward on the page res it got for args
ForwardOn(args, res) ==
  /\ resp' = ListResp("ListMoods", walk.user, args, res)
  /\ IF res.err = errNil /\ res.items # <<>> /\ Len(walk.fwd) < MaxWalk
     THEN walk' = [walk EXCEPT !.cursor = res.items[Len(res.items)].name,
                               !.fwd = walk.fwd \o res.items]
     ELSE IF walk.fwd = <<>>
          THEN walk' = [walk EXCEPT !.phase = "done"]
          ELSE walk' = [walk EXCEPT !.phase = "back",
                                    !.cursor = walk.fwd[Len(walk.fwd)].name,
                                    !.back = <<walk.fwd[Len(walk.fwd)]>>]

WalkForward ==
  /\ walk.phase = "fwd"
  /\ ForwardOn(ListArgs("", walk.cursor, 1),
               ListMoods(moods, walk.user, ListArgs("", walk.cursor, 1)))
  /\ UNCHANGED <<store, calls>>

\* the walker's step backward on the page res it got for args
BackwardOn(args, res) ==
  /\ resp' = ListResp("ListMoods", walk.user, args, res)
  /\ IF res.err = errNil /\ res.items # <<>> /\ Len(walk.back) < MaxWalk
     THEN walk' = [walk EXCEPT !.cursor = res.items[Len(res.items)].name,
                               !.back = walk.back \o res.items]
     ELSE walk' = [walk EXCEPT !.phase = "done"]

WalkBackward ==
  /\ walk.phase = "back"
  /\ BackwardOn(ListArgs(walk.cursor, "", 1),
                ListMoods(moods, walk.user, ListArgs(walk.cursor, "", 1)))
  /\ UNCHANGED <<store, calls>>

\* the caller takes the response, or ends its walk
Return ==
  /\ resp.op # "none" \/ walk.phase = "done"
  /\ walk.phase \in {"idle", "done"}
  /\ resp' = NoResp
  /\ walk' = IdleWalk
  /\ UNCHANGED <<store, calls>>

NextList ==
  \/ Quiet /\ \E u \in Users, a \in ArgsOver(MoodCursors) : CallListMoods(u, a)
  \/ Quiet /\ \E u \in Users, a \in ArgsOver(ConvoCursors) : CallListConversations(u, a)
  \/ \E u \in Users : WalkStart(u)
  \/ WalkForward
  \/ WalkBackward
  \/ Return

SpecList == InitList /\ [][NextList]_vars

(***************************************************************************)
(* Reference definitions of the listing claims.                            *)
(***************************************************************************)
\* the owner's Dynamic moods in ascending SequenceID order
DynamicListing(M, userID) ==
  LET rows == OrderById({r \in M : r.user = userID})
  IN [i \in DOMAIN rows |-> MoodOfRow(rows[i])]

\* the global order: Dynamic entries, then the built-ins as declared
FullListing(M, userID) == DynamicListing(M, userID) \o builtinMoods

\* the position in the listing L of the entry a cursor or an item names
PositionOf(L, name) ==
  CHOOSE i \in DOMAIN L :
    \/ L[i].name = name
    \/ L[i].userDefined /\ L[i].name = ToLower(name)

\* TRUE iff an entry of L lies beyond the pivot name in the direction
ExistsBeyond(L, pivot, asc) ==
  IF pivot = "" THEN L # <<>>
  ELSE IF asc THEN PositionOf(L, pivot) < Len(L) ELSE PositionOf(L, pivot) > 1

\* C1: ListMoods with no cursor and a limit of at least the number of
\* entries returns the owner's Dynamic moods in ascending SequenceID order
\* followed by all built-in moods in declaration order.
C1_FullListingReturned ==
  (/\ resp.op = "ListMoods"
   /\ resp.args.Before = "" /\ resp.args.After = ""
   /\ resp.args.Limit >= Len(FullListing(moods, resp.user)))
  => /\ resp.res.err = errNil
     /\ resp.res.items = FullListing(moods, resp.user)

\* C2: paging forward with limit 1 and After cursors reproduces the full
\* listing L, and paging backward from the last item with Before cursors
\* reproduces reverse(L).
C2_WalkReproducesListing ==
  walk.phase = "done"
  => /\ walk.fwd = FullListing(moods, walk.user)
     /\ walk.back = Reverse(FullListing(moods, walk.user))

\* a finished walk of an owner with Dynamic moods: both tiers were crossed
\* in both directions
C2_Witness ==
  /\ walk.phase = "done"
  /\ Len(DynamicListing(moods, walk.user)) >= 2
  /\ Len(walk.back) = Len(walk.fwd)
  /\ Len(walk.fwd) = Len(DynamicListing(moods, walk.user)) + Len(builtinMoods)

\* C3: hasMore is true iff an entry exists beyond the last returned item
\* (beyond the cursor when nothing is returned) in the requested direction.
C3_HasMoreAccurate ==
  (resp.op = "ListMoods" /\ resp.res.err = errNil)
  => LET asc == sortAsc(resp.args)
         cursor == IF asc THEN resp.args.After ELSE resp.args.Before
         items == resp.res.items
         pivot == IF items # <<>> THEN items[Len(items)].name ELSE cursor
     IN resp.res.hasMore = ExistsBeyond(FullListing(moods, resp.user), pivot, asc)

(***************************************************************************)
(* Statements of the store (src/say/repository.go 24-108) over the tables  *)
(* and constraints of src/schema.sql.  Each operator is one SQL statement, *)
(* which the store executes atomically.  The id sequences are advanced by  *)
(* successful inserts only: ids are compared, never counted, so the gaps   *)
(* that failed inserts leave in a real sequence are not represented.       *)
(***************************************************************************)
\* bounds: inserts a behaviour may make into each table
MaxMoodSeq == 2
MaxConvoSeq == 2
MaxLineSeq == 2

\* the values rand.Int can produce, after formatting
ConvoIDs == {"cv_1", "cv_2"}
LineIDs == {"ln_1", "ln_2"}

\* names sent by callers: Dynamic names, case variants, built-in names and
\* case variants of built-in names
MoodNames == {"foo", "FOO", "borg", "BORG"}

PlainLook == [eyes |-> "@@", tongue |-> "U "]

Looks == {PlainLook, [eyes |-> "--", tongue |-> "  "]}

Ids(S) == {r.id : r \in S}

LineRow(id, publicID, moodName, moodID, convoID) ==
  [id |-> id, public_id |-> publicID, animal |-> "default", think |-> FALSE,
   text |-> "moo", mood_name |-> moodName, mood_id |-> moodID,
   conversation_id |-> convoID]

\* UNIQUE (public_id) of conversations and of lines
publicIDUnchecked(T, publicID) == FALSE

publicIDTaken(T, publicID) == \E r \in T : r.public_id = publicID

\* no unique index on moods
moodKeyUnchecked(M, userID, name) == FALSE

\* unique_user_moods ON moods (user_id, lower(name)): a row of this key
\* exists
moodKeyTaken(M, userID, name) == findMood(M, userID, name) # {}

\* setMood replacing the row by a new one
updateMoodReinsert(M, userID, name, eyes, tongue) ==
  (M \ findMood(M, userID, name))
    \cup {MoodRow(MaxId(M) + 1, userID, ToLower(name), eyes, tongue)}

\* the UPDATE of setMood
updateMood(M, userID, name, eyes, tongue) ==
  {IF r \in findMood(M, userID, name)
     THEN [r EXCEPT !.eyes = eyes, !.tongue = tongue] ELSE r : r \in M}

\* the INSERT of setMood storing :name as it was sent
insertMoodAsSent(M, id, userID, name, eyes, tongue) ==
  M \cup {MoodRow(id, userID, name, eyes, tongue)}

\* the INSERT of setMood: the name is stored as lower(:name)
insertMood(M, id, userID, name, eyes, tongue) ==
  M \cup {MoodRow(id, userID, ToLower(name), eyes, tongue)}

\* no foreign key from lines to moods
moodLinesUnchecked(L, rows) == {}

\* fk_lines_mood: lines that keep rows of moods from being deleted
moodLines(L, rows) == {l \in L : l.mood_id \in Ids(rows)}

\* fk_lines_conversation without the cascade
convoLinesKept(L, rows) == {}

\* fk_lines_conversation ON DELETE CASCADE
convoLines(L, rows) == {l \in L : l.conversation_id \in Ids(rows)}

\* the rows deleteLine and getLine address
findLine(L, C, userID, convoID, lineID) ==
  {l \in L : l.public_id = lineID
              /\ l.conversation_id \in Ids(getConvo(C, userID, convoID))}

\* keys of removed rows, as recorded in gone
GoneKey(kind, userID, key) == [kind |-> kind, user |-> userID, key |-> key]

MoodKeys(rows) == {GoneKey("mood", r.user, r.name) : r \in rows}

ConvoKeys(rows) == {GoneKey("convo", r.user, r.public_id) : r \in rows}

LineKeys(rows) == {GoneKey("line", "", l.public_id) : l \in rows}

(***************************************************************************)
(* Calls in progress.  calls[p] is the call that caller p is executing or  *)
(* has last completed: its arguments, its position (pc), its local         *)
(* variables and its result.  A call takes one step per statement it       *)
(* sends to the store; callers interleave between statements.              *)
(***************************************************************************)
errNoUniqueConvo == "Unable to insert a new, unique conversation"
errNoUniqueLine == "Unable to insert a new, unique line"
errInvalidParams == "usererrors.InvalidParams"
errRecordNotFound == "errRecordNotFound"

\* what the handlers of the delete routes answer to the error of the
\* repository call
Response(kind, n) == [kind |-> kind, n |-> n]

respondDelete(err) ==
  IF err = errRecordNotFound THEN Response("NotFound", 0)
  ELSE IF err # errNil THEN Response("InternalError", 0)
  ELSE Response("NoContent", 0)

respondDeleteMood(err) ==
  IF err = errBuiltinMood THEN Response("ActionNotAllowed", 0) ELSE respondDelete(err)

\* for i := 0; i < maxInsertRetries; i++ : whether the loop goes on after
\* the iteration in which the counter is i
loopContinuesOnceMore(i) == i < maxInsertRetries

loopContinues(i) == i + 1 < maxInsertRetries

Idle ==
  [op |-> "idle", pc |-> "done", user |-> "", name |-> "", eyes |-> "",
   tongue |-> "", convo |-> "", line |-> "", i |-> 0, moodID |-> 0,
   convoID |-> 0, sent |-> 0, err |-> errNil]

Call(op, pc, userID) == [Idle EXCEPT !.op = op, !.pc = pc, !.user = userID]

MoodCall(op, pc, userID, name, look) ==
  [Call(op, pc, userID) EXCEPT !.name = name, !.eyes = look.eyes,
                               !.tongue = look.tongue]

NoLook == [eyes |-> "", tongue |-> ""]

\* the call returns err; its loop counter and the ids it looked up are
\* locals that end with it
Done(c, err) == [c EXCEPT !.pc = "done", !.err = err, !.i = 0, !.convoID = 0]

\* the last iteration of an insert loop has sent its insert statement
Sent(c) == [c EXCEPT !.sent = 1]

Free(p) == calls[p].pc = "done" /\ Quiet

Becomes(p, c) == calls' = [calls EXCEPT ![p] = c]

Pending(pc) == Cardinality({q \in DOMAIN calls : calls[q].pc = pc})

\* repository.SetMood up to the UPDATE of the setMood statement, in a
\* behaviour that makes at most maxSeq inserts into moods
SetMoodBeginUpTo(p, userID, name, look, maxSeq) ==
  /\ Free(p)
  /\ IF isBuiltin(name)
       THEN /\ Becomes(p, Done(MoodCall("SetMood", "done", userID, name, look),
                               errBuiltinMood))
            /\ UNCHANGED tables
       ELSE IF findMood(moods, userID, name) # {}
       THEN /\ moods' = updateMood(moods, userID, name, look.eyes, look.tongue)
            /\ Becomes(p, [MoodCall("SetMood", "done", userID, name, look)
                             EXCEPT !.moodID = RowID(findMood(moods, userID, name))])
            /\ UNCHANGED <<moodSeq, convos, convoSeq, lines, lineSeq>>
       ELSE /\ moodSeq + Pending("setMood.insert") < maxSeq
            /\ Becomes(p, MoodCall("SetMood", "setMood.insert", userID, name, look))
            /\ UNCHANGED tables
  /\ UNCHANGED <<resp, walk>>

SetMoodBegin(p, userID, name, look) == SetMoodBeginUpTo(p, userID, name, look, MaxMoodSeq)

\* the INSERT of the setMood statement, made when its UPDATE found no row,
\* and the return of repository.SetMood
SetMoodInsert(p) ==
  /\ calls[p].pc = "setMood.insert"
  /\ IF moodKeyTaken(moods, calls[p].user, calls[p].name)
       THEN /\ Becomes(p, Done(calls[p], dbErrDupUnique))
            /\ UNCHANGED tables
       ELSE /\ moods' = insertMood(moods, moodSeq + 1, calls[p].user, calls[p].name,
                                   calls[p].eyes, calls[p].tongue)
            /\ moodSeq' = moodSeq + 1
            /\ Becomes(p, [calls[p] EXCEPT !.pc = "done", !.moodID = moodSeq + 1])
            /\ UNCHANGED <<convos, convoSeq, lines, lineSeq>>
  /\ UNCHANGED <<resp, walk>>

\* a refused DELETE that has removed the rows all the same
restrictDeleteApplied(M, rows) == M \ rows

\* fk_lines_mood has no ON DELETE action: a DELETE of rows that lines refer
\* to is refused with 23503 and removes nothing
restrictDelete(M, rows) == M

\* repository.DeleteMood
DeleteMood(p, userID, name) ==
  /\ Free(p)
  /\ IF isBuiltin(name)
       THEN /\ Becomes(p, Done(MoodCall("DeleteMood", "done", userID, name, NoLook),
                               errBuiltinMood))
            /\ UNCHANGED tables
       ELSE IF moodLines(lines, findMood(moods, userID, name)) # {}
       THEN /\ Becomes(p, Done(MoodCall("DeleteMood", "done", userID, name, NoLook),
                               dbErrFKViolation))
            /\ moods' = restrictDelete(moods, findMood(moods, userID, name))
            /\ UNCHANGED <<moodSeq, convos, convoSeq, lines, lineSeq>>
       ELSE /\ moods' = moods \ findMood(moods, userID, name)
            /\ Becomes(p, MoodCall("DeleteMood", "done", userID, name, NoLook))
            /\ UNCHANGED <<moodSeq, convos, convoSeq, lines, lineSeq>>
  /\ UNCHANGED <<resp, walk>>

\* repository.GetMood: a built-in of exactly this name, else the caller's
\* row of this name in any case, else nil
NoMood == [name |-> "", eyes |-> "", tongue |-> "", userDefined |-> FALSE, id |-> -1]

BuiltinsNamed(name) == {i \in DOMAIN builtinMoods : builtinMoods[i].name = name}

GetMood(M, userID, name) ==
  IF BuiltinsNamed(name) # {}
    THEN builtinMoods[CHOOSE i \in BuiltinsNamed(name) : TRUE]
    ELSE IF findMood(M, userID, name) # {}
    THEN MoodOfRow(CHOOSE r \in findMood(M, userID, name) : TRUE)
    ELSE NoMood

\* LEFT JOIN moods ON lines.mood_id = moods.id: the moods row of a line,
\* none when mood_id is NULL
\* a join that finds no row of moods
joinMoodless(M, l) == {}

\* LEFT JOIN moods ON lines.mood_id = moods.id
joinMood(M, l) == {r \in M : r.id = l.mood_id}

NoJoin == [eyes |-> "", tongue |-> "", valid |-> FALSE]

\* a row of findConvoLines or getLine scanned into a lineRec: the columns
\* of the line with eyes and tongue of the joined row, invalid when NULL
LineRec(l, joined) ==
  [ID |-> l.public_id, Animal |-> l.animal, Think |-> l.think, Text |-> l.text,
   MoodName |-> l.mood_name,
   Eyes |-> IF joined = {} THEN NoJoin.eyes ELSE (CHOOSE r \in joined : TRUE).eyes,
   Tongue |-> IF joined = {} THEN NoJoin.tongue ELSE (CHOOSE r \in joined : TRUE).tongue,
   Valid |-> joined # {}]

BuiltinsFolding(name) ==
  {i \in DOMAIN builtinMoods : EqualFold(builtinMoods[i].name, name)}

\* setLineMood: a Dynamic mood of the joined eyes and tongue, else the
\* first built-in of that name in any case, else nil
setLineMood(rec) ==
  IF rec.Valid
    THEN [name |-> rec.MoodName, eyes |-> rec.Eyes, tongue |-> rec.Tongue,
          userDefined |-> TRUE, id |-> 0]
    ELSE IF BuiltinsFolding(rec.MoodName) # {}
    THEN builtinMoods[CHOOSE i \in BuiltinsFolding(rec.MoodName) :
                        \A j \in BuiltinsFolding(rec.MoodName) : i <= j]
    ELSE NoMood

errNoValidMood == "Line does not have a valid mood"

\* the Line of a lineRec
LineOf(rec) ==
  [ID |-> rec.ID, Animal |-> rec.Animal, Think |-> rec.Think, Text |-> rec.Text,
   MoodName |-> rec.MoodName, mood |-> setLineMood(rec)]

NoLine == [found |-> FALSE, line |-> <<>>, err |-> errNil]

LineResult(rec) ==
  IF setLineMood(rec) = NoMood
    THEN [found |-> FALSE, line |-> <<>>, err |-> errNoValidMood]
    ELSE [found |-> TRUE, line |-> LineOf(rec), err |-> errNil]

\* repository.GetLine
GetLine(L, C, M, userID, convoID, lineID) ==
  IF findLine(L, C, userID, convoID, lineID) = {} THEN NoLine
  ELSE LineResult(LineRec(CHOOSE l \in findLine(L, C, userID, convoID, lineID) : TRUE,
                          joinMood(M, CHOOSE l \in findLine(L, C, userID, convoID, lineID) : TRUE)))

\* findConvoLines with ORDER BY lines.id DESC
findConvoLinesDesc(L, M, rows) ==
  [i \in 1..Cardinality(convoLines(L, rows)) |->
     LineRec(Reverse(OrderById(convoLines(L, rows)))[i],
             joinMood(M, Reverse(OrderById(convoLines(L, rows)))[i]))]

\* findConvoLines: the lines of the conversation, ORDER BY lines.id ASC
findConvoLines(L, M, rows) ==
  [i \in 1..Cardinality(convoLines(L, rows)) |->
     LineRec(OrderById(convoLines(L, rows))[i],
             joinMood(M, OrderById(convoLines(L, rows))[i]))]

NoConvo == [found |-> FALSE, convo |-> <<>>, err |-> errNil]

\* the loop of GetConversation over the rows of findConvoLines
ConvoResult(row, recs) ==
  IF \E i \in DOMAIN recs : setLineMood(recs[i]) = NoMood
    THEN [found |-> FALSE, convo |-> <<>>, err |-> errNoValidMood]
    ELSE [found |-> TRUE,
          convo |-> [ConvoOfRow(row) EXCEPT !.Lines = [i \in DOMAIN recs |-> LineOf(recs[i])]],
          err |-> errNil]

\* repository.GetConversation
GetConversation(C, L, M, userID, convoID) ==
  IF getConvo(C, userID, convoID) = {} THEN NoConvo
  ELSE ConvoResult(CHOOSE r \in getConvo(C, userID, convoID) : TRUE,
                   findConvoLines(L, M, getConvo(C, userID, convoID)))

\* repository.NewConversation: entry into the retry loop
NewConversationBegin(p, userID) ==
  /\ Free(p)
  /\ convoSeq + Pending("insertConvo") < MaxConvoSeq
  /\ Becomes(p, Call("NewConversation", "insertConvo", userID))
  /\ UNCHANGED <<tables, resp, walk>>

\* one iteration of the loop: draw publicID, run insertConvo, and either
\* return the conversation, or count the unique violation and go on, or
\* leave the loop after maxInsertRetries iterations
NewConversationTry(p, publicID) ==
  /\ calls[p].pc = "insertConvo"
  /\ IF publicIDTaken(convos, publicID)
       THEN /\ Becomes(p, IF loopContinues(calls[p].i)
                            THEN [calls[p] EXCEPT !.i = calls[p].i + 1]
                            ELSE Sent(Done(calls[p], errNoUniqueConvo)))
            /\ UNCHANGED tables
       ELSE /\ convos' = convos \cup {ConvoRow(convoSeq + 1, publicID, calls[p].user, "h")}
            /\ convoSeq' = convoSeq + 1
            /\ Becomes(p, [Sent(Done(calls[p], errNil)) EXCEPT !.convo = publicID])
            /\ UNCHANGED <<moods, moodSeq, lines, lineSeq>>
  /\ UNCHANGED <<resp, walk>>

\* Controller.CreateLine up to its GetMood
CreateLineBegin(p, userID, convoID, moodName) ==
  /\ Free(p)
  /\ lineSeq + Pending("getConvo") + Pending("insertLine") < MaxLineSeq
  /\ Becomes(p, IF GetMood(moods, userID, moodName) = NoMood
                  THEN [Call("CreateLine", "done", userID)
                          EXCEPT !.convo = convoID, !.name = moodName,
                                 !.err = errInvalidParams]
                  ELSE [Call("CreateLine", "getConvo", userID)
                          EXCEPT !.convo = convoID, !.name = moodName,
                                 !.moodID = GetMood(moods, userID, moodName).id])
  /\ UNCHANGED <<tables, resp, walk>>

\* repository.InsertLine: the getConvo lookup
InsertLineGetConvo(p) ==
  /\ calls[p].pc = "getConvo"
  /\ Becomes(p, IF getConvo(convos, calls[p].user, calls[p].convo) = {}
                  THEN Done(calls[p], sqlErrNoRows)
                  ELSE [calls[p] EXCEPT !.pc = "insertLine",
                          !.convoID = RowID(getConvo(convos, calls[p].user, calls[p].convo))])
  /\ UNCHANGED <<tables, resp, walk>>

\* one iteration of the loop of repository.InsertLine: the unique index is
\* checked when the row is inserted, the foreign keys after it
InsertLineTry(p, publicID) ==
  /\ calls[p].pc = "insertLine"
  /\ IF publicIDTaken(lines, publicID)
       THEN /\ Becomes(p, IF loopContinues(calls[p].i)
                            THEN [calls[p] EXCEPT !.i = calls[p].i + 1]
                            ELSE Sent(Done(calls[p], errNoUniqueLine)))
            /\ UNCHANGED tables
       ELSE IF \/ calls[p].convoID \notin Ids(convos)
               \/ calls[p].moodID # 0 /\ calls[p].moodID \notin Ids(moods)
       THEN /\ Becomes(p, Sent(Done(calls[p], dbErrFKViolation)))
            /\ UNCHANGED tables
       ELSE /\ lines' = lines \cup {LineRow(lineSeq + 1, publicID, calls[p].name,
                                             calls[p].moodID, calls[p].convoID)}
            /\ lineSeq' = lineSeq + 1
            /\ Becomes(p, [Sent(Done(calls[p], errNil)) EXCEPT !.line = publicID])
            /\ UNCHANGED <<moods, moodSeq, convos, convoSeq>>
  /\ UNCHANGED <<resp, walk>>

\* errors.Trace: nil for nil, else a new error value that records the
\* place of the call and holds err as its cause
Trace(err) == IF err = errNil THEN errNil ELSE "errors.Err: " \o err

\* the error repository.InsertLine returns to the controller when the call
\* record ends with the cause err: every return of a cause goes through
\* errors.Trace, the exhausted loop returns errors.New
InsertLineReturns(err) == IF err = errNoUniqueLine THEN err ELSE Trace(err)

\* Controller.CreateLine from its call of InsertLine on: what it writes to
\* the ResponseWriter, in order. The NotFound branch does not return, so
\* that the rendered line follows it
CreateLineWrites(err) ==
  IF err = sqlErrNoRows THEN <<"NotFound", "Data">>
  ELSE IF err # errNil THEN <<"InternalError">>
  ELSE <<"Data">>

\* failures of an iteration that do not come from the rows of the store:
\* rand.Int returns an error, or the insert statement fails with an error
\* that is not a *pq.Error or has a code other than 23505
errRandRead == "rand: read failed"

StoreFaults == {"pq:57014", "driver: bad connection"}

Faults == {errRandRead} \cup StoreFaults

\* every error of the insert statement sends the loop on
retryableAlways(err) == TRUE

\* dbErr, ok := err.(*pq.Error); ok && dbErr.Code == dbErrDupUnique
retryable(err) == err = dbErrDupUnique

\* the end of an iteration whose insert statement failed with err
AfterFailure(c, err, exhausted) ==
  IF retryable(err)
    THEN IF loopContinues(c.i) THEN [c EXCEPT !.i = c.i + 1, !.err = err]
         ELSE Sent(Done(c, exhausted))
    ELSE Sent(Done(c, err))

\* an iteration that fails: at rand.Int, before any statement is sent, or
\* at the insert statement
FailedIteration(c, fault, exhausted) ==
  IF fault = errRandRead THEN Done(c, fault) ELSE AfterFailure(c, fault, exhausted)

\* an iteration of the loop of repository.NewConversation in which rand.Int
\* or the store fails
NewConversationFails(p, fault) ==
  /\ calls[p].pc = "insertConvo"
  /\ Becomes(p, FailedIteration(calls[p], fault, errNoUniqueConvo))
  /\ UNCHANGED <<tables, resp, walk>>

\* an iteration of the loop of repository.InsertLine in which rand.Int or
\* the store fails
InsertLineFails(p, fault) ==
  /\ calls[p].pc = "insertLine"
  /\ Becomes(p, FailedIteration(calls[p], fault, errNoUniqueLine))
  /\ UNCHANGED <<tables, resp, walk>>

\* repository.DeleteLine
DeleteLine(p, userID, convoID, lineID) ==
  /\ Free(p)
  /\ lines' = lines \ findLine(lines, convos, userID, convoID, lineID)
  /\ Becomes(p, [Call("DeleteLine", "done", userID)
                   EXCEPT !.convo = convoID, !.line = lineID])
  /\ UNCHANGED <<moods, moodSeq, convos, convoSeq, lineSeq, resp, walk>>

\* repository.DeleteConversation: the lines of the conversation go with it
DeleteConversation(p, userID, convoID) ==
  /\ Free(p)
  /\ convos' = convos \ getConvo(convos, userID, convoID)
  /\ lines' = lines \ convoLines(lines, getConvo(convos, userID, convoID))
  /\ Becomes(p, [Call("DeleteConversation", "done", userID) EXCEPT !.convo = convoID])
  /\ UNCHANGED <<moods, moodSeq, convoSeq, lineSeq, resp, walk>>

(***************************************************************************)
(* Specifications of the mutating operations start from the empty store.   *)
(***************************************************************************)
Empty(callers) ==
  /\ moods = {} /\ moodSeq = 0
  /\ convos = {} /\ convoSeq = 0
  /\ lines = {} /\ lineSeq = 0
  /\ gone = {}
  /\ resp = NoResp
  /\ walk = IdleWalk
  /\ calls = [p \in callers |-> Idle]

(***************************************************************************)
(* Two concurrent callers creating and deleting conversations and lines    *)
(* of one owner; the lines take the built-in mood "default".               *)
(***************************************************************************)
Callers == {1, 2}

InitConvos == Empty(Callers)

NextConvos ==
  \/ \E p \in Callers : NewConversationBegin(p, "u1") /\ UNCHANGED gone
  \/ \E p \in Callers, id \in ConvoIDs : NewConversationTry(p, id) /\ UNCHANGED gone
  \/ \E p \in Callers, c \in ConvoIDs :
       DeleteConversation(p, "u1", c) /\ UNCHANGED gone
  \/ \E p \in Callers, c \in ConvoIDs :
       CreateLineBegin(p, "u1", c, "default") /\ UNCHANGED gone
  \/ \E p \in Callers : InsertLineGetConvo(p) /\ UNCHANGED gone
  \/ \E p \in Callers, id \in LineIDs : InsertLineTry(p, id) /\ UNCHANGED gone
  \/ \E p \in Callers, c \in ConvoIDs, l \in LineIDs :
       DeleteLine(p, "u1", c, l) /\ UNCHANGED gone

SpecConvos == InitConvos /\ [][NextConvos]_vars

(***************************************************************************)
(* Two concurrent callers of one owner setting and deleting moods.         *)
(***************************************************************************)
InitMoods == Empty(Callers)

NextMoods ==
  \/ \E p \in Callers, n \in {"foo", "FOO", "bar", "borg"}, k \in Looks :
       SetMoodBegin(p, "u1", n, k) /\ UNCHANGED gone
  \/ \E p \in Callers : SetMoodInsert(p) /\ UNCHANGED gone
  \/ \E p \in Callers, n \in {"foo", "FOO", "bar", "borg"} :
       DeleteMood(p, "u1", n) /\ UNCHANGED gone

SpecMoods == InitMoods /\ [][NextMoods]_vars

(***************************************************************************)
(* The history of the store.                                               *)
(***************************************************************************)
LiveKeys(M, C, L) == MoodKeys(M) \cup ConvoKeys(C) \cup LineKeys(L)

\* a key is gone from the step that removes its row to the step that
\* creates a row of this key again
Remember ==
  gone' = (gone \cup LiveKeys(moods, convos, lines)) \ LiveKeys(moods', convos', lines')

\* the caller takes the result of its call
Rest(p) ==
  /\ calls[p].pc = "done"
  /\ calls[p].op # "idle"
  /\ calls' = [calls EXCEPT ![p] = Idle]
  /\ UNCHANGED <<store, resp, walk>>

Rested == \A p \in DOMAIN calls : calls[p] = Idle

(***************************************************************************)
(* One caller at a time, two owners: moods and conversations are created   *)
(* and deleted, and listed from a cursor.                                  *)
(***************************************************************************)
\* bound: largest limit of a list call
MaxPage == 1

PageArgs(cursors) ==
  {ListArgs("", "", l) : l \in 0..MaxPage}
    \cup {ListArgs("", c, l) : c \in cursors, l \in 0..MaxPage}
    \cup {ListArgs(c, "", l) : c \in cursors, l \in 0..MaxPage}

InitCursor == Empty({1})

NextCursor ==
  \/ \E u \in Users, n \in MoodNames : SetMoodBegin(1, u, n, PlainLook) /\ Remember
  \/ SetMoodInsert(1) /\ Remember
  \/ \E u \in Users, n \in MoodNames : DeleteMood(1, u, n) /\ Remember
  \/ \E u \in Users : NewConversationBegin(1, u) /\ Remember
  \/ \E id \in ConvoIDs : NewConversationTry(1, id) /\ Remember
  \/ \E u \in Users, c \in ConvoIDs : DeleteConversation(1, u, c) /\ Remember
  \/ Rest(1)
  \/ Rested /\ \E u \in Users, a \in PageArgs(MoodNames \cup {"nope"}) :
                 CallListMoods(u, a)
  \/ Rested /\ \E u \in Users, a \in PageArgs(ConvoIDs \cup {"nope"}) :
                 CallListConversations(u, a)
  \/ Return

SpecCursor == InitCursor /\ [][NextCursor]_vars

(***************************************************************************)
(* One caller at a time: owner u1 uses every mutating operation; owner u2  *)
(* tries to write the built-in moods.                                      *)
(***************************************************************************)
InitSeq == Empty({1})

NextSeq ==
  \/ \E n \in MoodNames : SetMoodBegin(1, "u1", n, PlainLook) /\ Remember
  \/ \E n \in {"borg", "BORG"} : SetMoodBegin(1, "u2", n, PlainLook) /\ Remember
  \/ SetMoodInsert(1) /\ Remember
  \/ \E n \in MoodNames : DeleteMood(1, "u1", n) /\ Remember
  \/ \E n \in {"borg", "BORG"} : DeleteMood(1, "u2", n) /\ Remember
  \/ NewConversationBegin(1, "u1") /\ Remember
  \/ \E id \in ConvoIDs : NewConversationTry(1, id) /\ Remember
  \/ \E c \in ConvoIDs : DeleteConversation(1, "u1", c) /\ Remember
  \/ \E c \in ConvoIDs, n \in {"foo", "borg"} : CreateLineBegin(1, "u1", c, n) /\ Remember
  \/ InsertLineGetConvo(1) /\ Remember
  \/ \E id \in LineIDs : InsertLineTry(1, id) /\ Remember
  \/ \E c \in ConvoIDs, l \in LineIDs : DeleteLine(1, "u1", c, l) /\ Remember

SpecSeq == InitSeq /\ [][NextSeq]_vars

(***************************************************************************)
(* One caller at a time writing moods: owner u1 sets and deletes moods     *)
(* under names in either case and with either look, owner u2 writes a mood *)
(* of a name u1 uses.  The store starts empty or with the row that an      *)
(* earlier SetMood of u1 for foo has left.                                 *)
(***************************************************************************)
OwnNames == {"foo", "FOO", "bar", "borg"}

\* bound: the highest id that an insert into moods is given
MaxOwnSeq == 3

InitOwn ==
  /\ \E k \in 0..1 : moods = SeedMoods(k, FALSE, FALSE) /\ moodSeq = k
  /\ convos = {} /\ convoSeq = 0
  /\ lines = {} /\ lineSeq = 0
  /\ gone = {}
  /\ resp = NoResp
  /\ walk = IdleWalk
  /\ calls = [p \in {1} |-> Idle]

NextOwn ==
  \/ \E n \in OwnNames, k \in Looks :
       SetMoodBeginUpTo(1, "u1", n, k, MaxOwnSeq) /\ Remember
  \/ SetMoodBeginUpTo(1, "u2", "foo", PlainLook, MaxOwnSeq) /\ Remember
  \/ SetMoodInsert(1) /\ Remember
  \/ \E n \in OwnNames : DeleteMood(1, "u1", n) /\ Remember
  \/ DeleteMood(1, "u2", "foo") /\ Remember

SpecOwn == InitOwn /\ [][NextOwn]_vars

(***************************************************************************)
(* Two concurrent callers of one owner creating lines in a conversation    *)
(* that exists from the start, with a Dynamic mood, a built-in mood or a   *)
(* case variant of a built-in name, while the Dynamic mood is set and      *)
(* deleted and the conversation is deleted.                                *)
(***************************************************************************)
LineMoods == {"foo", "borg", "BORG"}

InitLines ==
  /\ moods = {} /\ moodSeq = 0
  /\ convos = SeedConvos(1, FALSE) /\ convoSeq = 1
  /\ lines = {} /\ lineSeq = 0
  /\ gone = {}
  /\ resp = NoResp
  /\ walk = IdleWalk
  /\ calls = [p \in Callers |-> Idle]

NextLines ==
  \/ \E p \in Callers : SetMoodBegin(p, "u1", "foo", PlainLook) /\ UNCHANGED gone
  \/ \E p \in Callers : SetMoodInsert(p) /\ UNCHANGED gone
  \/ \E p \in Callers : DeleteMood(p, "u1", "foo") /\ UNCHANGED gone
  \/ \E p \in Callers, n \in LineMoods :
       CreateLineBegin(p, "u1", "cv_a", n) /\ UNCHANGED gone
  \/ \E p \in Callers : InsertLineGetConvo(p) /\ UNCHANGED gone
  \/ \E p \in Callers, id \in LineIDs : InsertLineTry(p, id) /\ UNCHANGED gone
  \/ \E p \in Callers : DeleteConversation(p, "u1", "cv_a") /\ UNCHANGED gone

SpecLines == InitLines /\ [][NextLines]_vars

(***************************************************************************)
(* One caller at a time creating and deleting lines of the built-in mood   *)
(* "default" in two conversations that exist from the start.               *)
(***************************************************************************)
(***************************************************************************)
(* The list handlers of the controller: the form of the request, its       *)
(* listArgs, the call of the repository and the response.                  *)
(***************************************************************************)
defaultListLimit == 10

maxListLimit == 100

\* r.FormValue(key): the value sent under the key, "" when it was not sent
FormValue(form, key) == IF key \in DOMAIN form THEN form[key] ELSE ""

\* the values of limit that requests send
LimitStrings == {"", "0", "1", "2", "10", "100", "101", "-1", "+2", "ten", "1.5"}

Parsed(n) == [ok |-> TRUE, n |-> n]

\* strconv.Atoi on the strings requests send: an optional sign and decimal
\* digits, an error for anything else
Atoi(str) ==
  CASE str = "0" -> Parsed(0)
    [] str = "1" -> Parsed(1)
    [] str = "2" -> Parsed(2)
    [] str = "+2" -> Parsed(2)
    [] str = "10" -> Parsed(10)
    [] str = "100" -> Parsed(100)
    [] str = "101" -> Parsed(101)
    [] str = "-1" -> Parsed(-1)
    [] OTHER -> [ok |-> FALSE, n |-> 0]

ArgsOrError(args, err) == [args |-> args, err |-> err]

InvalidArgs == ArgsOrError(ListArgs("", "", 0), errInvalidParams)

\* the limit of getListArgs
LimitOf(before, after, limitStr) ==
  IF limitStr = "" THEN ArgsOrError(ListArgs(before, after, defaultListLimit), errNil)
  ELSE IF \/ ~Atoi(limitStr).ok
          \/ Atoi(limitStr).n < 0
          \/ Atoi(limitStr).n > maxListLimit
  THEN InvalidArgs
  ELSE ArgsOrError(ListArgs(before, after, Atoi(limitStr).n), errNil)

\* getListArgs taking both cursors
getListArgsEitherCursor(form) ==
  LimitOf(FormValue(form, "ending_before"), FormValue(form, "starting_after"),
          FormValue(form, "limit"))

\* getListArgs
getListArgs(form) ==
  IF FormValue(form, "starting_after") # "" /\ FormValue(form, "ending_before") # ""
    THEN InvalidArgs
    ELSE LimitOf(FormValue(form, "ending_before"), FormValue(form, "starting_after"),
                 FormValue(form, "limit"))

\* what a list handler writes: respond.UserError with InvalidParams (400),
\* the InternalFailure of respond.InternalError or of WrapPanicC after a
\* panic of the handler (500), or respond.Data with a listRes (200)
Reply(kind, cursor, hasMore, data, panicked) ==
  [kind |-> kind, cursor |-> cursor, has_more |-> hasMore, data |-> data,
   panicked |-> panicked]

InvalidParamsReply == Reply("InvalidParams", "", FALSE, <<>>, FALSE)

InternalFailureReply(panicked) == Reply("InternalFailure", "", FALSE, <<>>, panicked)

\* the handler after the call of the repository; keys are the names or ids
\* of the items. items[len(items)-1] panics with an index out of range on
\* an empty page
ListReply(res, keys) ==
  IF res.err = errCursorNotFound THEN InvalidParamsReply
  ELSE IF res.err # errNil THEN InternalFailureReply(FALSE)
  ELSE IF Len(res.items) = 0 THEN InternalFailureReply(TRUE)
  ELSE Reply("Data", keys[Len(res.items)], res.hasMore, res.items, FALSE)

\* the ids of conversations or lines
IDsOf(items) == [i \in DOMAIN items |-> items[i].ID]

MoodNamesOf(items) == [i \in DOMAIN items |-> items[i].name]

\* one request and its response; queried: the handler called the repository
Exchange(op, userID, form, parsed, queried, reply) ==
  [op |-> op, user |-> userID, form |-> form, args |-> parsed.args,
   queried |-> queried, res |-> reply]

\* Controller.ListMoods
ControllerListMoods(M, userID, form) ==
  IF getListArgs(form).err # errNil
    THEN Exchange("Controller.ListMoods", userID, form, getListArgs(form), FALSE,
                  InvalidParamsReply)
    ELSE Exchange("Controller.ListMoods", userID, form, getListArgs(form), TRUE,
                  ListReply(ListMoods(M, userID, getListArgs(form).args),
                            MoodNamesOf(ListMoods(M, userID, getListArgs(form).args).items)))

\* Controller.ListConversations
ControllerListConversations(C, userID, form) ==
  IF getListArgs(form).err # errNil
    THEN Exchange("Controller.ListConversations", userID, form, getListArgs(form), FALSE,
                  InvalidParamsReply)
    ELSE Exchange("Controller.ListConversations", userID, form, getListArgs(form), TRUE,
                  ListReply(ListConversations(C, userID, getListArgs(form).args),
                            IDsOf(ListConversations(C, userID, getListArgs(form).args).items)))

\* a form with the keys the handlers read
ServerForm(after, before, limitStr) ==
  [k \in {"starting_after", "ending_before", "limit"} |->
     IF k = "starting_after" THEN after
     ELSE IF k = "ending_before" THEN before ELSE limitStr]

HandleListMoods(userID, form) ==
  /\ resp' = ControllerListMoods(moods, userID, form)
  /\ UNCHANGED <<store, walk, calls>>

HandleListConversations(userID, form) ==
  /\ resp' = ControllerListConversations(convos, userID, form)
  /\ UNCHANGED <<store, walk, calls>>

\* list requests with every combination of cursors and limits on a store
\* of up to two Dynamic moods and three conversations
InitArgs ==
  /\ \E k \in 0..2 : moods = SeedMoods(k, FALSE, FALSE) /\ moodSeq = k
  /\ \E k \in {0, 3} : convos = SeedConvos(k, FALSE) /\ convoSeq = k
  /\ lines = {} /\ lineSeq = 0
  /\ gone = {}
  /\ resp = NoResp
  /\ walk = IdleWalk
  /\ calls = [p \in {1} |-> Idle]

NextArgs ==
  \/ \E a \in {"", "foo", "dead"}, b \in {"", "bar", "tired"}, l \in LimitStrings :
       HandleListMoods("u1", ServerForm(a, b, l))
  \/ \E a \in {"", "cv_a"}, b \in {"", "cv_c"}, l \in LimitStrings :
       HandleListConversations("u1", ServerForm(a, b, l))

SpecArgs == InitArgs /\ [][NextArgs]_vars

(***************************************************************************)
(* The iterator of the client over the list routes.                        *)
(***************************************************************************)
\* bound: largest number of entries an iteration yields
MaxNext == 13

ListParams(after, before, limit) == [After |-> after, Before |-> before, Limit |-> limit]

\* the decimal form of the limits a client sets
Itoa(n) ==
  CASE n = 0 -> "0" [] n = 1 -> "1" [] n = 2 -> "2" [] n = 10 -> "10" [] OTHER -> "100"

\* query.Values(it.params): the keys are the url tags of ListParams, and
\* the name of the field where it has no tag
ClientForm(params) ==
  [k \in {"ending_after", "starting_before", "Limit"} |->
     IF k = "ending_after" THEN params.After
     ELSE IF k = "starting_before" THEN params.Before ELSE Itoa(params.Limit)]

\* Client.iter: the Iter of a route, before its first page
NewIter(route, userID, params) ==
  [phase |-> "iter", route |-> route, user |-> userID, params |-> params,
   hasMore |-> TRUE, values |-> <<>>, err |-> errNil, yielded |-> <<>>,
   ended |-> FALSE]

\* the response of the route to the form
Execute(route, userID, form) ==
  IF route = "ListMoods" THEN ControllerListMoods(moods, userID, form).res
  ELSE ControllerListConversations(convos, userID, form).res

KeysOf(route, data) == IF route = "ListMoods" THEN MoodNamesOf(data) ELSE IDsOf(data)

\* the cursor getPage keeps for the next request
NextParams(params, cursor) ==
  IF params.After # "" THEN [params EXCEPT !.After = cursor]
  ELSE [params EXCEPT !.Before = cursor]

\* Iter.getPage: a status above 399 is returned as an error
getPage(it, reply) ==
  IF reply.kind # "Data" THEN [it EXCEPT !.err = reply.kind]
  ELSE [it EXCEPT !.hasMore = reply.has_more,
                  !.params = NextParams(it.params, reply.cursor),
                  !.values = KeysOf(it.route, reply.data)]

\* the end of Iter.Next: it.values.Index(0) panics on an empty page
Advance(it) ==
  IF it.err # errNil THEN [it EXCEPT !.ended = TRUE]
  ELSE IF Len(it.values) = 0 THEN [it EXCEPT !.err = "panic", !.ended = TRUE]
  ELSE [it EXCEPT !.yielded = Append(it.yielded, Head(it.values)),
                  !.values = Tail(it.values)]

\* Iter.Next
IterNext(it) ==
  IF it.err # errNil THEN [it EXCEPT !.ended = TRUE]
  ELSE IF Len(it.values) = 0
  THEN IF ~it.hasMore THEN [it EXCEPT !.ended = TRUE]
       ELSE Advance(getPage(it, Execute(it.route, it.user, ClientForm(it.params))))
  ELSE Advance(it)

\* Client.ListMoods and Client.ListConversations
Iterate(route, userID, params) ==
  /\ walk.phase = "idle"
  /\ walk' = NewIter(route, userID, params)
  /\ UNCHANGED <<store, resp, calls>>

\* a call of Next on an Iter whose last call returned true
CallNext(userID) ==
  /\ walk.phase = "iter" /\ walk.user = userID
  /\ ~walk.ended
  /\ Len(walk.yielded) < MaxNext
  /\ walk' = IterNext(walk)
  /\ UNCHANGED <<store, resp, calls>>

IterIDs == <<"cv_a", "cv_b", "cv_c", "cv_d", "cv_e", "cv_f", "cv_g", "cv_h", "cv_i",
             "cv_j", "cv_k">>

ManyConvos(k) == {ConvoRow(i, IterIDs[i], "u1", "h") : i \in 1..k}

\* one client iterating the moods or the conversations of a store that no
\* call changes meanwhile
InitIter ==
  /\ \E k \in 0..3 : moods = SeedMoods(k, FALSE, FALSE) /\ moodSeq = k
  /\ \E k \in {0, 1, 10, 11} : convos = ManyConvos(k) /\ convoSeq = k
  /\ lines = {} /\ lineSeq = 0
  /\ gone = {}
  /\ resp = NoResp
  /\ walk = IdleWalk
  /\ calls = [p \in {1} |-> Idle]

NextIter ==
  \/ \E rt \in {"ListMoods", "ListConversations"} :
       Iterate(rt, "u1", ListParams("", "", 0))
  \/ CallNext("u1")

SpecIter == InitIter /\ [][NextIter]_vars

\* two owners: u2 has a mood foo and a conversation with a line of that
\* mood; u1 calls, one call at a time, with names and ids that u2 has and
\* with others
InitShare ==
  /\ moods = {MoodRow(1, "u2", "foo", "oo", "  ")} /\ moodSeq = 1
  /\ convos = {ConvoRow(1, "cv_1", "u2", "h")} /\ convoSeq = 1
  /\ lines = {LineRow(1, "ln_1", "foo", 1, 1)} /\ lineSeq = 1
  /\ gone = {}
  /\ resp = NoResp
  /\ walk = IdleWalk
  /\ calls = [p \in {1} |-> Idle]

NextShare ==
  \/ SetMoodBegin(1, "u1", "foo", PlainLook) /\ UNCHANGED gone
  \/ SetMoodInsert(1) /\ UNCHANGED gone
  \/ DeleteMood(1, "u1", "foo") /\ UNCHANGED gone
  \/ NewConversationBegin(1, "u1") /\ UNCHANGED gone
  \/ \E id \in ConvoIDs : NewConversationTry(1, id) /\ UNCHANGED gone
  \/ \E c \in ConvoIDs : DeleteConversation(1, "u1", c) /\ UNCHANGED gone
  \/ \E c \in ConvoIDs : CreateLineBegin(1, "u1", c, "foo") /\ UNCHANGED gone
  \/ InsertLineGetConvo(1) /\ UNCHANGED gone
  \/ \E id \in LineIDs : InsertLineTry(1, id) /\ UNCHANGED gone
  \/ \E c \in ConvoIDs, l \in LineIDs : DeleteLine(1, "u1", c, l) /\ UNCHANGED gone

SpecShare == InitShare /\ [][NextShare]_vars

\* lines of a Dynamic mood whose eyes and tongue are set again and which is
\* deleted: one caller, one conversation, the mood foo addressed in two cases
RenderNames == {"foo", "FOO"}

InitRender ==
  /\ moods = {} /\ moodSeq = 0
  /\ convos = SeedConvos(1, FALSE) /\ convoSeq = 1
  /\ lines = {} /\ lineSeq = 0
  /\ gone = {}
  /\ resp = NoResp
  /\ walk = IdleWalk
  /\ calls = [p \in {1} |-> Idle]

NextRender ==
  \/ \E n \in RenderNames \cup {"BORG"}, k \in Looks :
       SetMoodBegin(1, "u1", n, k) /\ UNCHANGED gone
  \/ SetMoodInsert(1) /\ UNCHANGED gone
  \/ \E n \in {"foo", "BORG"} : DeleteMood(1, "u1", n) /\ UNCHANGED gone
  \/ \E n \in RenderNames \cup {"borg", "BORG"} :
       CreateLineBegin(1, "u1", "cv_a", n) /\ UNCHANGED gone
  \/ InsertLineGetConvo(1) /\ UNCHANGED gone
  \/ \E id \in LineIDs : InsertLineTry(1, id) /\ UNCHANGED gone

SpecRender == InitRender /\ [][NextRender]_vars

InitThread ==
  /\ moods = {} /\ moodSeq = 0
  /\ convos = SeedConvos(2, FALSE) /\ convoSeq = 2
  /\ lines = {} /\ lineSeq = 0
  /\ gone = {}
  /\ resp = NoResp
  /\ walk = IdleWalk
  /\ calls = [p \in {1} |-> Idle]

NextThread ==
  \/ \E c \in {"cv_a", "cv_b"} : CreateLineBegin(1, "u1", c, "default") /\ UNCHANGED gone
  \/ InsertLineGetConvo(1) /\ UNCHANGED gone
  \/ \E id \in LineIDs : InsertLineTry(1, id) /\ UNCHANGED gone
  \/ \E c \in {"cv_a", "cv_b"}, l \in LineIDs : DeleteLine(1, "u1", c, l) /\ UNCHANGED gone

SpecThread == InitThread /\ [][NextThread]_vars

(***************************************************************************)
(* Two concurrent callers of one owner creating conversations and lines    *)
(* while the random source and the store may fail.                         *)
(***************************************************************************)
InitFaults == Empty(Callers)

NextFaults ==
  \/ \E p \in Callers : NewConversationBegin(p, "u1") /\ UNCHANGED gone
  \/ \E p \in Callers, id \in ConvoIDs : NewConversationTry(p, id) /\ UNCHANGED gone
  \/ \E p \in Callers, f \in Faults : NewConversationFails(p, f) /\ UNCHANGED gone
  \/ \E p \in Callers, c \in ConvoIDs :
       CreateLineBegin(p, "u1", c, "default") /\ UNCHANGED gone
  \/ \E p \in Callers : InsertLineGetConvo(p) /\ UNCHANGED gone
  \/ \E p \in Callers, id \in LineIDs : InsertLineTry(p, id) /\ UNCHANGED gone
  \/ \E p \in Callers, f \in Faults : InsertLineFails(p, f) /\ UNCHANGED gone
  \/ \E p \in Callers, c \in ConvoIDs :
       DeleteConversation(p, "u1", c) /\ UNCHANGED gone

SpecFaults == InitFaults /\ [][NextFaults]_vars

(***************************************************************************)
(* Properties of listing from a cursor, of the protected built-in moods    *)
(* and of the delete operations.                                           *)
(***************************************************************************)
\* the cursor of a list call: After when it is set, else Before
Cursor(args) == CursorOf(sortAsc(args), args)

\* c names a live mood of the owner: the key of one of the owner's rows in
\* any case, or a built-in mood by its name
NamesMood(M, userID, c) ==
  \/ \E r \in M : r.user = userID /\ r.name = ToLower(c)
  \/ \E i \in DOMAIN builtinMoods : builtinMoods[i].name = c

NamesConvo(C, userID, c) == \E r \in C : r.user = userID /\ r.public_id = c

DanglingCursor ==
  /\ Cursor(resp.args) # ""
  /\ \/ resp.op = "ListMoods" /\ ~NamesMood(moods, resp.user, Cursor(resp.args))
     \/ resp.op = "ListConversations" /\ ~NamesConvo(convos, resp.user, Cursor(resp.args))

\* C4: a ListMoods or ListConversations call whose After or Before value
\* names no live entry of the caller, in either tier for moods, fails with
\* errCursorNotFound and returns no items
C4_DanglingCursorFails ==
  DanglingCursor => resp.res = ListResult(<<>>, FALSE, errCursorNotFound)

\* a list call from the name of a mood that its owner deleted earlier
C4_Witness ==
  /\ resp.op = "ListMoods"
  /\ GoneKey("mood", resp.user, ToLower(Cursor(resp.args))) \in gone
  /\ resp.res.err = errCursorNotFound
  /\ \E r \in moods : r.user # resp.user /\ r.name = ToLower(Cursor(resp.args))

\* every built-in name in lower case, in upper case and capitalised
BuiltinVariants ==
  {builtinMoods[i].name : i \in DOMAIN builtinMoods}
    \cup {"DEFAULT", "BORG", "DEAD", "GREEDY", "STONED", "TIRED", "WIRED", "YOUNG"}
    \cup {"Default", "Borg", "Dead", "Greedy", "Stoned", "Tired", "Wired", "Young"}

\* caller p makes a step of a call of one of ops that ends the call
Ends(p, ops) ==
  /\ calls'[p] # calls[p]
  /\ calls'[p].op \in ops
  /\ calls'[p].pc = "done"

\* C5: every built-in name in any case is recognised as protected, and a
\* SetMood or DeleteMood call on such a name, by any owner in any store state,
\* returns errBuiltinMood in its first step and leaves every table as it was
C5_BuiltinProtected ==
  /\ \A n \in BuiltinVariants : isBuiltin(n)
  /\ [][\A p \in DOMAIN calls :
          calls'[p] # calls[p] /\ calls'[p].op \in {"SetMood", "DeleteMood"}
                               /\ calls'[p].name \in BuiltinVariants
            => /\ calls'[p].pc = "done"
               /\ calls'[p].err = errBuiltinMood
               /\ tables' = tables]_vars

\* the second owner was refused the deletion of BORG while the store held
\* a Dynamic mood and a line
C5_Witness ==
  /\ calls[1].op = "DeleteMood" /\ calls[1].user = "u2" /\ calls[1].name = "BORG"
  /\ calls[1].err = errBuiltinMood
  /\ moods # {} /\ lines # {}

\* C6: DeleteMood of a Dynamic mood that N >= 1 lines refer to is answered
\* with ActionNotAllowed carrying N; when no line refers to the mood the
\* call succeeds
C6_DeleteReferencedMood ==
  \A p \in DOMAIN calls :
    calls[p].op = "DeleteMood" /\ calls[p].pc = "done" /\ ~isBuiltin(calls[p].name)
      => IF moodLines(lines, findMood(moods, calls[p].user, calls[p].name)) # {}
           THEN respondDeleteMood(calls[p].err) =
                  Response("ActionNotAllowed",
                           Cardinality(moodLines(lines, findMood(moods, calls[p].user,
                                                                 calls[p].name))))
           ELSE calls[p].err = errNil

\* the entity a delete call that ends in this step addresses has no row
DeletesMissing(p) ==
  \/ /\ Ends(p, {"DeleteMood"})
     /\ ~isBuiltin(calls'[p].name)
     /\ findMood(moods, calls'[p].user, calls'[p].name) = {}
  \/ /\ Ends(p, {"DeleteConversation"})
     /\ getConvo(convos, calls'[p].user, calls'[p].convo) = {}
  \/ /\ Ends(p, {"DeleteLine"})
     /\ findLine(lines, convos, calls'[p].user, calls'[p].convo, calls'[p].line) = {}

DeleteResponse(c) ==
  IF c.op = "DeleteMood" THEN respondDeleteMood(c.err) ELSE respondDelete(c.err)

\* C7: DeleteMood, DeleteConversation and DeleteLine on an entity that has
\* no row for the caller are answered with NotFound
C7_DeleteMissingNotFound ==
  [][\A p \in DOMAIN calls :
       DeletesMissing(p) => DeleteResponse(calls'[p]).kind = "NotFound"]_vars

(***************************************************************************)
(* Properties of concurrent callers.                                       *)
(***************************************************************************)
Distinct(T) == \A r \in T, q \in T : r.public_id = q.public_id => r = q

\* C8: in every state reached by interleaved NewConversation, CreateLine,
\* DeleteConversation and DeleteLine calls the live conversations have
\* pairwise distinct public ids, and so have the live lines
C8_PublicIDsDistinct == Distinct(convos) /\ Distinct(lines)

\* one caller has created a conversation while the other, in its loop, has
\* drawn an id that is taken; two lines exist
C8_Witness ==
  /\ \E p \in DOMAIN calls, q \in DOMAIN calls :
       /\ calls[p].op = "NewConversation" /\ calls[p].pc = "done"
       /\ calls[p].err = errNil
       /\ calls[q].pc = "insertConvo" /\ calls[q].i > 0
  /\ Cardinality(lines) = 2

InLoop(c) == c.pc \in {"insertConvo", "insertLine"}

Exhausted(c) == c.pc = "done" /\ c.err \in {errNoUniqueConvo, errNoUniqueLine}

\* C9: a caller in the insert loop of NewConversation or InsertLine has
\* fewer than 16 failed attempts behind it; each of its steps either counts
\* one more failed attempt and inserts nothing, or ends the call; and the
\* call ends with the error of the exhausted loop exactly when its 16th
\* attempt fails, having inserted nothing
C9_SixteenAttempts ==
  /\ [](\A p \in DOMAIN calls : InLoop(calls[p]) => calls[p].i < 16)
  /\ [][\A p \in DOMAIN calls :
          InLoop(calls[p]) /\ calls'[p] # calls[p]
            => \/ /\ calls'[p].pc = calls[p].pc
                  /\ calls'[p].i = calls[p].i + 1
                  /\ tables' = tables
               \/ /\ Exhausted(calls'[p])
                  /\ calls[p].i = 15
                  /\ tables' = tables
               \/ /\ calls'[p].pc = "done"
                  /\ ~Exhausted(calls'[p])]_vars

\* both loops have been exhausted, one by each caller
C9_Witness ==
  \E p \in DOMAIN calls, q \in DOMAIN calls :
    /\ calls[p].op = "NewConversation" /\ calls[p].pc = "done"
    /\ calls[p].err = errNoUniqueConvo
    /\ calls[q].op = "CreateLine" /\ calls[q].pc = "done"
    /\ calls[q].err = errNoUniqueLine

SamePair(c, d) == c.user = d.user /\ ToLower(c.name) = ToLower(d.name)

SetMoodDone(c) == c.op = "SetMood" /\ c.pc = "done" /\ ~isBuiltin(c.name)

\* C10: when both callers have completed SetMood calls for the same owner
\* and the same name up to case, both calls have succeeded and exactly one
\* row of this key exists, with the eyes and tongue of one of the calls
C10_ConcurrentSetMood ==
  \A p \in DOMAIN calls, q \in DOMAIN calls :
    p # q /\ SetMoodDone(calls[p]) /\ SetMoodDone(calls[q]) /\ SamePair(calls[p], calls[q])
      => /\ calls[p].err = errNil
         /\ calls[q].err = errNil
         /\ Cardinality(findMood(moods, calls[p].user, calls[p].name)) = 1
         /\ \A r \in findMood(moods, calls[p].user, calls[p].name) :
              \/ r.eyes = calls[p].eyes /\ r.tongue = calls[p].tongue
              \/ r.eyes = calls[q].eyes /\ r.tongue = calls[q].tongue

(***************************************************************************)
(* Properties of SetMood, GetMood and DeleteMood of one caller.            *)
(***************************************************************************)
\* the fields of a Mood that a caller is shown
Shown(m) ==
  [name |-> m.name, eyes |-> m.eyes, tongue |-> m.tongue, userDefined |-> m.userDefined]

Returned(c, op) == c.op = op /\ c.pc = "done" /\ c.err = errNil

\* the call writes the mood of userID that name addresses
Writes(c, userID, name) ==
  c.op \in {"SetMood", "DeleteMood"} /\ c.user = userID /\ EqualFold(c.name, name)

\* what GetMood answers after a step: the name as stored (folded) or as sent
GetAfterWrite(folded) ==
  /\ \A p \in DOMAIN calls :
       /\ Returned(calls'[p], "SetMood")
            => Shown(GetMood(moods', calls'[p].user, calls'[p].name)) =
                 [name |-> IF folded THEN ToLower(calls'[p].name) ELSE calls'[p].name,
                  eyes |-> calls'[p].eyes, tongue |-> calls'[p].tongue,
                  userDefined |-> TRUE]
       /\ Returned(calls'[p], "DeleteMood")
            => GetMood(moods', calls'[p].user, calls'[p].name) = NoMood
  /\ \A u \in Users, n \in OwnNames :
       (\A p \in DOMAIN calls : ~Writes(calls'[p], u, n))
         => GetMood(moods', u, n) = GetMood(moods, u, n)

\* C11, with the name as the store keeps it: after a successful SetMood(owner, name, eyes, tongue)
\* on a non-built-in name GetMood(owner, name) returns the mood named
\* lower(name) with those eyes and tongue and UserDefined = true; after a
\* successful DeleteMood(owner, name) it returns not found; steps that are
\* not a SetMood or DeleteMood of that owner on that name leave what
\* GetMood returns unchanged
C11_GetAfterSetFolded == [][GetAfterWrite(TRUE)]_vars

\* C11, with the name as the caller sent it: the same with the returned
\* mood carrying the name that was passed to SetMood
C11_GetAfterSetExact == [][GetAfterWrite(FALSE)]_vars

\* FOO has been set again with the second look after another mood was
\* inserted, and GetMood shows that look under the name foo
C11_Witness ==
  /\ Returned(calls[1], "SetMood") /\ calls[1].name = "FOO" /\ calls[1].eyes = "--"
  /\ calls[1].moodID < moodSeq
  /\ Shown(GetMood(moods, "u1", "FOO")) =
       [name |-> "foo", eyes |-> "--", tongue |-> "  ", userDefined |-> TRUE]

(***************************************************************************)
(* Properties of ListConversations.                                        *)
(***************************************************************************)
\* the conversations of userID in the order of their creation
ConvoListing(C, userID) == ConvosOfRows(OrderById({r \in C : r.user = userID}))

IndexOf(L, publicID) == CHOOSE i \in DOMAIN L : L[i].ID = publicID

\* the entries of L strictly beyond position pos (0: no cursor) in the
\* direction of the call, nearest first
BeyondAt(L, asc, pos) ==
  IF pos = 0 THEN (IF asc THEN L ELSE Reverse(L))
  ELSE IF asc THEN SubSeq(L, pos + 1, Len(L))
  ELSE Reverse(SubSeq(L, 1, pos - 1))

BeyondCursor(L, asc, cursor) ==
  BeyondAt(L, asc, IF cursor = "" THEN 0 ELSE IndexOf(L, cursor))

Resolves(L, cursor) == cursor = "" \/ \E i \in DOMAIN L : L[i].ID = cursor

\* res is the page of at most limit entries at the head of B
PageOf(res, B, limit) ==
  /\ res.err = errNil
  /\ res.items = Take(B, limit)
  /\ Len(res.items) = Min(limit, Len(B))
  /\ res.hasMore = (Len(B) > limit)

\* C12: ListConversations(owner, cursor, limit) returns the first
\* min(limit, k) of the owner's k conversations strictly beyond the cursor,
\* in creation order for After or no cursor and in the reverse order for
\* Before, with hasMore = (k > limit), for every limit >= 0
C12_ConversationPage ==
  (resp.op = "ListConversations"
   /\ Resolves(ConvoListing(convos, resp.user), Cursor(resp.args)))
  => PageOf(resp.res,
            BeyondCursor(ConvoListing(convos, resp.user), sortAsc(resp.args),
                         Cursor(resp.args)),
            resp.args.Limit)

\* a page of one conversation, taken backwards from the last of three, with
\* one more conversation beyond it
C12_Witness ==
  /\ resp.op = "ListConversations"
  /\ Len(ConvoListing(convos, resp.user)) = 3
  /\ resp.args.Before = ConvoListing(convos, resp.user)[3].ID
  /\ resp.args.After = ""
  /\ resp.args.Limit = 1
  /\ resp.res.items = <<ConvoListing(convos, resp.user)[2]>>
  /\ resp.res.hasMore

(***************************************************************************)
(* Properties of the lines of conversations.                               *)
(***************************************************************************)
\* every line has a mood: setLineMood finds one for its row
Resolved(L, M) == \A l \in L : setLineMood(LineRec(l, joinMood(M, l))) # NoMood

\* a caller ends a DeleteMood call in this step on a Dynamic mood that
\* lines refer to
DeletesReferenced(p) ==
  /\ Ends(p, {"DeleteMood"})
  /\ moodLines(lines, findMood(moods, calls'[p].user, calls'[p].name)) # {}

\* C13: under interleaved CreateLine, SetMood, DeleteMood and
\* DeleteConversation calls every stored line resolves to a mood, a
\* built-in by name or the Dynamic row it refers to, so that GetLine and
\* GetConversation never fail for want of a valid mood; a DeleteMood on a
\* mood that lines refer to fails and changes no table, no step removes a
\* moods row that a line refers to, and lines are removed only in steps of
\* DeleteConversation
C13_LinesResolve ==
  /\ [](/\ Resolved(lines, moods)
        /\ \A c \in Range(SeedIDs) :
             GetConversation(convos, lines, moods, "u1", c).err = errNil
        /\ \A c \in Range(SeedIDs), l \in LineIDs :
             GetLine(lines, convos, moods, "u1", c, l).err = errNil)
  /\ [][/\ \A p \in DOMAIN calls :
            DeletesReferenced(p) => calls'[p].err # errNil /\ tables' = tables
        /\ \A l \in lines : l.mood_id # 0 => joinMood(moods', l) = joinMood(moods, l)
        /\ lines \subseteq lines'
             \/ \E p \in DOMAIN calls : calls'[p].op = "DeleteConversation"]_vars

\* both kinds of line are stored, one of the Dynamic mood foo and one of
\* the built-in borg, and a DeleteMood of foo has been refused
C13_Witness ==
  /\ \E l \in lines : l.mood_id # 0 /\ l.mood_name = "foo"
  /\ \E l \in lines : l.mood_id = 0 /\ l.mood_name = "borg"
  /\ \E p \in DOMAIN calls :
       calls[p].op = "DeleteMood" /\ calls[p].err = dbErrFKViolation
  /\ GetConversation(convos, lines, moods, "u1", "cv_a").found

\* what is left of a conversations row that this step removes: neither the
\* conversation nor any of its former lines is found, and the rows of the
\* lines are gone
NothingLeftOf(r) ==
  /\ GetConversation(convos', lines', moods', r.user, r.public_id) = NoConvo
  /\ \A l \in convoLines(lines, {r}) :
       /\ l \notin lines'
       /\ GetLine(lines', convos', moods', r.user, r.public_id, l.public_id) = NoLine

\* C14: every stored line belongs to an existing conversation; a
\* DeleteConversation(owner, c) call returns without error with no
\* conversation c of the owner left; and in the state after a conversation
\* is removed GetConversation(owner, c) and GetLine(owner, c, l) for every
\* former line l return not found, the rows of the lines being removed
\* with it
C14_DeleteConversationCascades ==
  /\ [](\A l \in lines : l.conversation_id \in Ids(convos))
  /\ [][/\ \A p \in DOMAIN calls :
            Ends(p, {"DeleteConversation"})
              => /\ calls'[p].err = errNil
                 /\ getConvo(convos', calls'[p].user, calls'[p].convo) = {}
        /\ \A r \in convos \ convos' : NothingLeftOf(r)]_vars

\* two lines were created, the second by a caller that has made no call
\* since, and the other caller's DeleteConversation has left no
\* conversation and no line
C14_Witness ==
  \E p \in DOMAIN calls, q \in DOMAIN calls :
    /\ calls[p].op = "DeleteConversation" /\ calls[p].pc = "done"
    /\ calls[q].op = "CreateLine" /\ calls[q].pc = "done" /\ calls[q].err = errNil
    /\ lineSeq = 2 /\ lines = {}
    /\ convoSeq = 1 /\ convos = {}
    /\ GetLine(lines, convos, moods, "u1", calls[p].convo, calls[q].line) = NoLine

\* the ids of the lines that GetConversation returns for a conversations row
LinesShown(C, L, M, r) == IDsOf(GetConversation(C, L, M, r.user, r.public_id).convo.Lines)

Without(s, x) == SelectSeq(s, LAMBDA y : y # x)

\* how a step changes the lines shown for a conversation that it keeps: an
\* inserted line is added at the end, a deleted line is taken out with the
\* others left in their order, and nothing else changes
LinesFollow(r) ==
  IF \E l \in lines' \ lines : l.conversation_id = r.id
    THEN \E l \in lines' \ lines :
           LinesShown(convos', lines', moods', r) =
             Append(LinesShown(convos, lines, moods, r), l.public_id)
    ELSE IF \E l \in lines \ lines' : l.conversation_id = r.id
    THEN \E l \in lines \ lines' :
           LinesShown(convos', lines', moods', r) =
             Without(LinesShown(convos, lines, moods, r), l.public_id)
    ELSE LinesShown(convos', lines', moods', r) = LinesShown(convos, lines, moods, r)

ListsAll(userID) == ListConversations(convos, userID, ListArgs("", "", MaxConvoSeq))

\* C15: GetConversation returns the lines inserted into the conversation
\* and not deleted since, in the order of their insertion: a new
\* conversation has none, a successful CreateLine adds its line at the end,
\* a DeleteLine takes its line out, and no step that changes a table
\* changes the lines in any other way; the entries ListConversations returns carry no lines
C15_LinesInInsertionOrder ==
  /\ [](\A u \in Users : \A i \in DOMAIN ListsAll(u).items :
          ListsAll(u).items[i].Lines = <<>>)
  /\ [][/\ \A r \in convos' \ convos : LinesShown(convos', lines', moods', r) = <<>>
        /\ tables' # tables => \A r \in convos \cap convos' : LinesFollow(r)
        /\ \A p \in DOMAIN calls :
             /\ Ends(p, {"CreateLine"}) /\ calls'[p].err = errNil
                  => \E r \in getConvo(convos', calls'[p].user, calls'[p].convo) :
                       /\ lines' # lines
                       /\ LinesShown(convos', lines', moods', r) =
                            Append(LinesShown(convos, lines, moods, r), calls'[p].line)
             /\ Ends(p, {"DeleteLine"})
                  => \A r \in getConvo(convos', calls'[p].user, calls'[p].convo) :
                       LinesShown(convos', lines', moods', r) =
                         Without(LinesShown(convos, lines, moods, r), calls'[p].line)]_vars

\* a conversation shows ln_2 before ln_1, the order in which they were
\* inserted, while its entry in the listing has no lines
C15_Witness ==
  /\ \E r \in convos : LinesShown(convos, lines, moods, r) = <<"ln_2", "ln_1">>
  /\ Len(ListsAll("u1").items) = 2
  /\ ListsAll("u1").items[1].Lines = <<>>

(***************************************************************************)
(* Properties of the two tiers of ListMoods.                               *)
(***************************************************************************)
\* the entries of the listing L strictly beyond the cursor in the direction
\* of the call, nearest first
MoodsBeyond(L, asc, cursor) ==
  BeyondAt(L, asc, IF cursor = "" THEN 0 ELSE PositionOf(L, cursor))

\* those of the primary tier: the Dynamic moods ascending, the built-ins
\* descending
OfPrimary(B, asc) == SelectSeq(B, LAMBDA m : m.userDefined = asc)

Beyond(r) == MoodsBeyond(FullListing(moods, r.user), sortAsc(r.args), Cursor(r.args))

\* C16: when the primary tier holds fewer than limit entries beyond the
\* cursor, ListMoods returns them followed by the first entries of the
\* secondary tier, min(limit, number of entries beyond the cursor) items
\* in all
C16_SecondaryFillsPage ==
  (/\ resp.op = "ListMoods"
   /\ resp.res.err = errNil
   /\ Len(OfPrimary(Beyond(resp), sortAsc(resp.args))) < resp.args.Limit)
  => /\ resp.res.items = Take(Beyond(resp), resp.args.Limit)
     /\ Len(resp.res.items) = Min(resp.args.Limit, Len(Beyond(resp)))

\* C17: when the primary tier alone holds at least limit + 1 entries beyond
\* the cursor, ListMoods returns the first limit of them with hasMore =
\* true and does not call the secondary tier
C17_PrimaryAloneSuffices ==
  (/\ resp.op = "ListMoods"
   /\ resp.res.err = errNil
   /\ Len(OfPrimary(Beyond(resp), sortAsc(resp.args))) >= resp.args.Limit + 1)
  => /\ resp.res.items = Take(OfPrimary(Beyond(resp), sortAsc(resp.args)), resp.args.Limit)
     /\ resp.res.hasMore
     /\ ~QueriesSecondary(moods, resp.user, resp.args)

(***************************************************************************)
(* Properties of failing inserts.                                          *)
(***************************************************************************)
\* caller p makes an iteration of an insert loop that fails otherwise than
\* by a unique violation
FailsOtherwise(p) ==
  /\ InLoop(calls[p])
  /\ calls'[p] # calls[p]
  /\ calls'[p].err \notin {errNil, dbErrDupUnique, errNoUniqueConvo, errNoUniqueLine}

\* such an iteration ends the call with the error and inserts nothing;
\* always: its insert statement was sent whatever failed; ~always: it was
\* sent unless rand.Int failed
AbortsAtOnce(always) ==
  /\ \A p \in DOMAIN calls :
       FailsOtherwise(p)
         => /\ calls'[p].pc = "done"
            /\ tables' = tables
            /\ calls'[p].sent = IF always \/ calls'[p].err # errRandRead THEN 1 ELSE 0
  /\ \A p \in DOMAIN calls :
       calls[p].pc = "done" /\ InLoop(calls'[p])
         => calls'[p].op = "NewConversation" /\ calls'[p].i = 0

\* C18, counting the statements sent: in NewConversation and InsertLine an
\* insert failure that is not a unique violation (23505), or a failure of
\* the random source, ends the call in that iteration with the error: no
\* row is inserted, no further iteration of that call follows, and the
\* iteration has sent one insert statement when the insert failed and none
\* when the random source failed
C18_FailureAborts == [][AbortsAtOnce(FALSE)]_vars

\* C18, with one insert attempt in the failing iteration in either case
C18_OneAttemptEither == [][AbortsAtOnce(TRUE)]_vars

\* with a conversation stored, one caller's NewConversation has ended on a
\* failure of the store and the other's CreateLine on a failure of the
\* random source
C18_Witness ==
  \E p \in DOMAIN calls, q \in DOMAIN calls :
    /\ calls[p].op = "NewConversation" /\ calls[p].pc = "done"
    /\ calls[p].err \in StoreFaults /\ calls[p].sent = 1
    /\ calls[q].op = "CreateLine" /\ calls[q].pc = "done"
    /\ calls[q].err = errRandRead /\ calls[q].sent = 0
    /\ convos # {}

(***************************************************************************)
(* Properties of the SequenceIDs of moods.                                 *)
(***************************************************************************)
\* list calls by which the positions of moods are observed
PlaceArgs ==
  {ListArgs("", "", l) : l \in 0..3}
    \cup {ListArgs("", c, l) : c \in {"foo", "bar", "default"}, l \in 1..2}
    \cup {ListArgs(c, "", l) : c \in {"foo", "bar", "borg"}, l \in 1..2}

\* who is where in a result of ListMoods
Places(res) ==
  [items |-> [i \in DOMAIN res.items |-> <<res.items[i].name, res.items[i].id>>],
   hasMore |-> res.hasMore, err |-> res.err]

\* caller p completes in this step a SetMood for a mood that has a row
SetsExisting(p) ==
  /\ calls[p].pc = "done"
  /\ Returned(calls'[p], "SetMood")
  /\ findMood(moods, calls'[p].user, calls'[p].name) # {}

\* C19: a SetMood on a name that has a Dynamic row of the owner changes
\* eyes and tongue of that row and nothing else: the number of rows and the
\* id of the row stay, every ListMoods call of every owner shows the same
\* moods at the same places as before, and a second SetMood with the same
\* values changes nothing
C19_UpdateInPlace ==
  [][/\ \A p \in DOMAIN calls :
          SetsExisting(p)
            => /\ Cardinality(moods') = Cardinality(moods)
               /\ moodSeq' = moodSeq
               /\ Ids(findMood(moods', calls'[p].user, calls'[p].name)) =
                    Ids(findMood(moods, calls'[p].user, calls'[p].name))
               /\ calls'[p].moodID = RowID(findMood(moods, calls'[p].user, calls'[p].name))
               /\ moods' = updateMood(moods', calls'[p].user, calls'[p].name,
                                      calls'[p].eyes, calls'[p].tongue)
               /\ \A u \in Users, a \in PlaceArgs :
                    Places(ListMoods(moods', u, a)) = Places(ListMoods(moods, u, a))
     /\ (calls' = calls /\ \E p \in DOMAIN calls : Returned(calls[p], "SetMood"))
          => tables' = tables]_vars

\* the first of two moods of u1 has been given the second look and is still
\* listed first
C19_Witness ==
  /\ Returned(calls[1], "SetMood") /\ calls[1].user = "u1" /\ calls[1].name = "foo"
  /\ calls[1].moodID = 1
  /\ \E r \in moods : r.id = 1 /\ r.user = "u1" /\ r.eyes = "--"
  /\ \E r \in moods : r.id = 2 /\ r.user = "u1"
  /\ Places(ListMoods(moods, "u1", ListArgs("", "", 1))).items = << <<"foo", 1>> >>

\* the listing of all moods of userID as ListMoods returns it for a limit
\* that exceeds twice their number
Listed(M, userID) ==
  Places(ListMoods(M, userID,
                   ListArgs("", "", 2 * Cardinality(M) + Len(builtinMoods) + 1))).items

DynamicPart(M, userID) == [i \in 1..(Len(Listed(M, userID)) - Len(builtinMoods)) |->
                             Listed(M, userID)[i]]

BuiltinPart == [i \in DOMAIN builtinMoods |-> <<builtinMoods[i].name, 0>>]

\* the listing of the owner of the new row n after the step that inserts
\* it: as before with n between the last Dynamic mood and the built-ins
ListedAfterLast(n) ==
  Listed(moods', n.user) =
    Append(DynamicPart(moods, n.user), <<n.name, n.id>>) \o BuiltinPart

\* C20: a new Dynamic mood gets an id greater than every id given out
\* before, is listed right after the last Dynamic mood of its owner and
\* before the built-ins with all other entries of all owners where they
\* were, and this also holds for a mood set again after it was deleted
C20_NewMoodListedLast ==
  /\ [](\A r \in moods : r.id <= moodSeq)
  /\ [][\A n \in moods' \ moods :
          moods \subseteq moods'
            => /\ n.id > moodSeq
               /\ ListedAfterLast(n)
               /\ \A u \in Users \ {n.user} : Listed(moods', u) = Listed(moods, u)
               /\ GoneKey("mood", n.user, n.name) \in gone
                    => DynamicPart(moods', n.user)[Len(DynamicPart(moods', n.user))]
                         = <<n.name, n.id>>]_vars

\* foo, created before bar, then deleted and set again, is listed after bar
C20_Witness ==
  /\ Returned(calls[1], "SetMood") /\ calls[1].user = "u1"
  /\ ToLower(calls[1].name) = "foo"
  /\ DynamicPart(moods, "u1") = << <<"bar", 2>>, <<"foo", 3>> >>

(***************************************************************************)
(* Properties of the names of moods.                                       *)
(***************************************************************************)
SameKey(r, q) == r.user = q.user /\ ToLower(r.name) = ToLower(q.name)

\* C21: under interleaved SetMood and DeleteMood calls there is at most
\* one moods row per owner and lower-cased name
C21_OneRowPerName == \A r \in moods, q \in moods : SameKey(r, q) => r = q

\* both callers found no row for foo and went on to insert: one insert
\* made the row, the other was refused by the unique index
C21_Witness ==
  \E p \in DOMAIN calls, q \in DOMAIN calls :
    /\ Returned(calls[p], "SetMood") /\ calls[p].name = "foo"
    /\ calls[q].op = "SetMood" /\ calls[q].name = "FOO" /\ calls[q].pc = "done"
    /\ calls[q].err = dbErrDupUnique
    /\ Cardinality(findMood(moods, "u1", "foo")) = 1

(***************************************************************************)
(* Lines are rendered from the mood as it is when they are read.           *)
(***************************************************************************)
ConvoOfLine(C, l) == CHOOSE c \in C : c.id = l.conversation_id

\* the Line shows the columns of the row l and the mood named as in the
\* row with eyes and tongue as given
ShownWith(line, l, eyes, tongue) ==
  /\ line.ID = l.public_id
  /\ line.Animal = l.animal /\ line.Think = l.think /\ line.Text = l.text
  /\ line.MoodName = l.mood_name
  /\ line.mood.name = l.mood_name /\ line.mood.userDefined
  /\ line.mood.eyes = eyes /\ line.mood.tongue = tongue

GetLineShows(L, C, M, c, l, eyes, tongue) ==
  /\ GetLine(L, C, M, c.user, c.public_id, l.public_id).found
  /\ ShownWith(GetLine(L, C, M, c.user, c.public_id, l.public_id).line, l, eyes, tongue)

InConvoShown(res, l, eyes, tongue) ==
  /\ res.found
  /\ \E i \in DOMAIN res.convo.Lines : res.convo.Lines[i].ID = l.public_id
  /\ \A i \in DOMAIN res.convo.Lines :
       res.convo.Lines[i].ID = l.public_id
         => ShownWith(res.convo.Lines[i], l, eyes, tongue)

RendersLive(L, C, M, l, eyes, tongue) ==
  /\ GetLineShows(L, C, M, ConvoOfLine(C, l), l, eyes, tongue)
  /\ InConvoShown(GetConversation(C, L, M, ConvoOfLine(C, l).user,
                                  ConvoOfLine(C, l).public_id), l, eyes, tongue)

\* C22: a SetMood on a Dynamic mood that lines reference changes no row of
\* lines, and GetLine and GetConversation then return each such line with
\* the eyes and tongue just set and with the mood name, animal, think flag
\* and text of its row
C22_RenderedFromLiveMood ==
  [][\A p \in DOMAIN calls :
       SetsExisting(p)
         => /\ lines' = lines
            /\ \A l \in lines :
                 l.mood_id = calls'[p].moodID
                   => RendersLive(lines', convos', moods', l,
                                  calls'[p].eyes, calls'[p].tongue)]_vars

\* two lines were made with the mood foo, addressed in either case, the
\* mood was then set to the second look, and GetLine shows the line made
\* as FOO with it
C22_Witness ==
  /\ Returned(calls[1], "SetMood") /\ calls[1].eyes = "--"
  /\ \E l \in lines, k \in lines :
       /\ l.mood_id = calls[1].moodID /\ l.mood_name = "FOO"
       /\ k.mood_id = calls[1].moodID /\ k.mood_name = "foo"
       /\ GetLine(lines, convos, moods, "u1", "cv_a", l.public_id).line.mood.eyes = "--"

(***************************************************************************)
(* CreateLine on a conversation the caller does not have.                  *)
(***************************************************************************)
\* the CreateLine call found no conversation of its caller under the id
NoSuchConvo(c) == c.op = "CreateLine" /\ c.pc = "done" /\ c.err = sqlErrNoRows

\* C23: a CreateLine whose conversation id names no conversation of the
\* caller is answered with NotFound and nothing else, and makes no line
C23_MissingConvoNotFound ==
  \A p \in DOMAIN calls :
    NoSuchConvo(calls[p])
      => /\ CreateLineWrites(InsertLineReturns(calls[p].err)) = <<"NotFound">>
         /\ calls[p].line = ""

(***************************************************************************)
(* The parameters of list requests.                                        *)
(***************************************************************************)
\* the strings that denote an integer in 0..100, with the integer
InRange == [str \in {"0", "1", "2", "+2", "10", "100"} |->
              IF str = "0" THEN 0 ELSE IF str = "1" THEN 1
              ELSE IF str \in {"2", "+2"} THEN 2
              ELSE IF str = "10" THEN 10 ELSE 100]

BadForm(form) ==
  \/ form["starting_after"] # "" /\ form["ending_before"] # ""
  \/ form["limit"] # "" /\ form["limit"] \notin DOMAIN InRange

Handled(x) == x.op \in {"Controller.ListMoods", "Controller.ListConversations"}

ListingKeys(route, userID) ==
  IF route = "ListMoods" THEN MoodNamesOf(FullListing(moods, userID))
  ELSE IDsOf(ConvoListing(convos, userID))

IsPrefix(a, b) == Len(a) <= Len(b) /\ a = SubSeq(b, 1, Len(a))

\* C25: an iteration begun with empty ListParams yields the entries of the
\* listing in its order, each once, and when Next returns false it has
\* yielded all of them and has no error
C25_IterYieldsListing ==
  walk.phase = "iter"
    => /\ IsPrefix(walk.yielded, ListingKeys(walk.route, walk.user))
       /\ walk.ended
            => /\ walk.yielded = ListingKeys(walk.route, walk.user)
               /\ walk.err = errNil

(***************************************************************************)
(* The data of one owner and the calls of another.                         *)
(***************************************************************************)
OwnMoods(M, userID) == {r \in M : r.user = userID}

OwnConvos(C, userID) == {r \in C : r.user = userID}

OwnLines(L, C, userID) == {l \in L : l.conversation_id \in Ids(OwnConvos(C, userID))}

\* the whole listing, and the page of one entry on either side of a cursor
ReadArgs(cursors) ==
  {ListArgs("", "", 9)}
    \cup {ListArgs("", a, 1) : a \in cursors} \cup {ListArgs(b, "", 1) : b \in cursors}

\* everything the reading calls of userID return on the tables M, C and L
Reads(userID, M, C, L) ==
  <<[a \in ReadArgs({"foo", "borg"}) |-> ListMoods(M, userID, a)],
    [n \in {"foo", "FOO", "borg"} |-> GetMood(M, userID, n)],
    [a \in ReadArgs(ConvoIDs) |-> ListConversations(C, userID, a)],
    [c \in ConvoIDs |-> GetConversation(C, L, M, userID, c)],
    [x \in ConvoIDs \X LineIDs |-> GetLine(L, C, M, userID, x[1], x[2])]>>

\* a call that names a mood, conversation or line its caller does not have
\* ends as it does in a store without any such entity
AsIfMissing(before, after) ==
  /\ (/\ after.op = "DeleteMood"
      /\ \A r \in OwnMoods(moods, after.user) : r.name # ToLower(after.name))
       => tables' = tables /\ after.err = errNil
  /\ (/\ after.op \in {"DeleteConversation", "DeleteLine"}
      /\ \A r \in OwnConvos(convos, after.user) : r.public_id # after.convo)
       => tables' = tables /\ after.err = errNil
  /\ (/\ after.op = "DeleteLine"
      /\ \A l \in OwnLines(lines, convos, after.user) : l.public_id # after.line)
       => tables' = tables /\ after.err = errNil
  /\ (/\ after.op = "CreateLine" /\ before.pc = "done" /\ after.name = "foo"
      /\ OwnMoods(moods, after.user) = {})
       => after.pc = "done" /\ after.err = errInvalidParams
  /\ (/\ after.op = "CreateLine" /\ before.pc = "getConvo"
      /\ \A r \in OwnConvos(convos, after.user) : r.public_id # after.convo)
       => tables' = tables /\ after.pc = "done" /\ after.err = sqlErrNoRows

\* C26: a step of a call of one owner leaves every result of the reading
\* calls of the other owner as it was; what the reading calls of an owner
\* return is what they return on that owner's rows alone; and a Delete or
\* CreateLine naming a mood, conversation or line of the other owner ends
\* as for a missing one
C26_OwnersIsolated ==
  [][/\ tables' # tables
          => /\ \A u \in Users \ {calls'[1].user} :
                  Reads(u, moods', convos', lines') = Reads(u, moods, convos, lines)
             /\ \A u \in Users :
                  Reads(u, moods', convos', lines') =
                    Reads(u, OwnMoods(moods', u), OwnConvos(convos', u),
                          OwnLines(lines', convos', u))
     /\ calls'[1] # calls[1] => AsIfMissing(calls[1], calls'[1])]_vars

\* u2 has a conversation with a line of its mood foo, and u1, who has a
\* mood foo and a conversation too, has called DeleteConversation with the
\* id of the conversation of u2
C26_Witness ==
  /\ calls[1].op = "DeleteConversation" /\ calls[1].user = "u1"
  /\ OwnMoods(moods, "u1") # {} /\ OwnConvos(convos, "u1") # {}
  /\ \E r \in convos, l \in lines, m \in moods :
       /\ r.user = "u2" /\ r.public_id = calls[1].convo
       /\ l.conversation_id = r.id
       /\ m.user = "u2" /\ m.id = l.mood_id

(***************************************************************************)
(* A DeleteMood that fails.                                                *)
(***************************************************************************)
FailedDeleteMood(p) ==
  /\ Ends(p, {"DeleteMood"})
  /\ calls'[p].err \in {errBuiltinMood, dbErrFKViolation}

MoodReads(userID, M, C, L) ==
  <<[a \in ReadArgs({"foo", "borg"}) |-> ListMoods(M, userID, a)],
    [n \in MoodNames |-> GetMood(M, userID, n)],
    [x \in {"cv_a"} \X LineIDs |-> GetLine(L, C, M, userID, x[1], x[2])]>>

\* C27: a DeleteMood that is refused, for a built-in name or for a mood
\* that lines refer to, leaves every row of moods and of lines and the
\* sequence of mood ids as they were, and ListMoods, GetMood and GetLine
\* return after it what they returned before it
C27_FailedDeleteKeepsStore ==
  [][\A p \in DOMAIN calls :
       FailedDeleteMood(p)
         => /\ moods' = moods /\ moodSeq' = moodSeq /\ lines' = lines
            /\ \A u \in Users :
                 MoodReads(u, moods', convos', lines') = MoodReads(u, moods, convos, lines)]_vars

\* a DeleteMood of foo was refused with 23503 while a line refers to foo
C27_Witness ==
  /\ calls[1].op = "DeleteMood" /\ calls[1].pc = "done"
  /\ calls[1].err = dbErrFKViolation
  /\ moodLines(lines, findMood(moods, calls[1].user, calls[1].name)) # {}
  /\ GetMood(moods, "u1", "foo") # NoMood

(***************************************************************************)
(* Dynamic moods and the names of the built-ins.                           *)
(***************************************************************************)
BuiltinNames == {builtinMoods[i].name : i \in DOMAIN builtinMoods}

NamesOnce(items) ==
  \A i \in DOMAIN items, j \in DOMAIN items : items[i].name = items[j].name => i = j

\* the whole listing and pages from cursors in both tiers, both ways
TierArgs ==
  {ListArgs("", "", 17)}
    \cup {ListArgs("", c, 9) : c \in {"foo", "borg", "dead"}}
    \cup {ListArgs(c, "", 9) : c \in {"foo", "borg", "dead"}}

TheBuiltin(name) == CHOOSE m \in Range(builtinMoods) : m.name = ToLower(name)

\* C29: every name that SetMood and DeleteMood refuse as built-in, in any
\* case, is found by GetMood as that built-in mood, and a CreateLine with
\* it is not refused for its mood
C29_BuiltinNamesConsistent ==
  \A p \in DOMAIN calls :
    /\ (calls[p].op \in {"SetMood", "DeleteMood"} /\ calls[p].err = errBuiltinMood)
         => GetMood(moods, calls[p].user, calls[p].name) = TheBuiltin(calls[p].name)
    /\ (calls[p].op = "CreateLine" /\ isBuiltin(calls[p].name))
         => calls[p].err # errInvalidParams

(***************************************************************************)
(* List requests whose page is empty.                                      *)
(***************************************************************************)
\* what the repository returned to the handler of the request
Listing(x) ==
  IF x.op = "Controller.ListMoods" THEN ListMoods(moods, x.user, x.args)
  ELSE ListConversations(convos, x.user, x.args)

EmptyPage(x) ==
  /\ Handled(x) /\ x.queried
  /\ Listing(x).err = errNil /\ Len(Listing(x).items) = 0

\* C30: a list request for which the repository returns an empty page is
\* answered with a list of no entries and the has_more flag the repository
\* computed, not with a failure
C30_EmptyPageAnswered ==
  EmptyPage(resp)
    => /\ resp.res.kind = "Data"
       /\ resp.res.data = <<>>
       /\ resp.res.has_more = Listing(resp).hasMore
====
